---- MODULE Spec2Model ----
(***************************************************************************)
(* Literature-curation pipeline: RIS record model (parse / serialize),     *)
(* DOI deduplication and the rule-based filter stages.                      *)
(*                                                                         *)
(* Strings are sequences of one-character strings, so that trimming,       *)
(* splitting, prefix tests and substring tests are computed, not assumed.  *)
(* A record (a Python dict tag -> list of values) is a sequence of entries *)
(* [tag, values] with pairwise distinct tags, in dict insertion order.     *)
(***************************************************************************)
EXTENDS Integers, Sequences, FiniteSets, TLC

VARIABLES pc, records, rules, ris_text, out_records, stats

vars == <<pc, records, rules, ris_text, out_records, stats>>

(***************************************************************************)
(* Bounds                                                                  *)
(***************************************************************************)
\* largest number of tag lines (values) over all records of a serialized input
MaxLines == 3

(***************************************************************************)
(* String helpers (Python str methods)                                     *)
(***************************************************************************)
Min(a, b) == IF a <= b THEN a ELSE b

Whitespace == {" ", "\t", "\n", "\r"}

\* s[i:] of Python, i counted from 1
Drop(s, i) == SubSeq(s, i, Len(s))

\* str.startswith
StartsWith(s, p) == Len(s) >= Len(p) /\ SubSeq(s, 1, Len(p)) = p

\* str.find, 1-based; 0 when p does not occur in s
Find(s, p) ==
  IF \E i \in 1..(Len(s) - Len(p) + 1) : SubSeq(s, i, i + Len(p) - 1) = p
  THEN CHOOSE i \in 1..(Len(s) - Len(p) + 1) :
         /\ SubSeq(s, i, i + Len(p) - 1) = p
         /\ \A j \in 1..(i - 1) : SubSeq(s, j, j + Len(p) - 1) # p
  ELSE 0

\* the Python operator "p in s" on strings
Contains(s, p) == Len(p) = 0 \/ Find(s, p) # 0

\* str.lstrip / str.rstrip / str.strip with the given character set
RECURSIVE LStripSet(_, _)
LStripSet(s, cs) ==
  IF s # <<>> /\ Head(s) \in cs THEN LStripSet(Tail(s), cs) ELSE s

RECURSIVE RStripSet(_, _)
RStripSet(s, cs) ==
  IF s # <<>> /\ s[Len(s)] \in cs THEN RStripSet(SubSeq(s, 1, Len(s) - 1), cs) ELSE s

Strip(s) == RStripSet(LStripSet(s, Whitespace), Whitespace)

\* concatenation of a sequence of strings
RECURSIVE Concat(_)
Concat(ss) == IF ss = <<>> THEN <<>> ELSE Head(ss) \o Concat(Tail(ss))

\* iteration of a text file: the lines, each without its "\n"; a last line
\* without "\n" is still a line, an empty remainder is not
RECURSIVE SplitLines(_)
SplitLines(t) ==
  IF t = <<>> THEN <<>>
  ELSE LET k == Find(t, <<"\n">>)
       IN IF k = 0 THEN <<t>>
          ELSE <<SubSeq(t, 1, k - 1)>> \o SplitLines(Drop(t, k + 1))

(***************************************************************************)
(* Records as ordered dicts                                                *)
(***************************************************************************)
Tags(rec) == {rec[i].tag : i \in 1..Len(rec)}

HasTag(rec, t) == t \in Tags(rec)

\* record[t]; only used where t is a key
Get(rec, t) == rec[CHOOSE i \in 1..Len(rec) : rec[i].tag = t].values

\* record.get(t, [])
GetOr(rec, t) == IF HasTag(rec, t) THEN Get(rec, t) ELSE <<>>

\* defaultdict(list): current_record[t].append(v)
DictAppend(rec, t, v) ==
  IF HasTag(rec, t)
  THEN [i \in 1..Len(rec) |->
          IF rec[i].tag = t
          THEN [tag |-> t, values |-> Append(rec[i].values, v)]
          ELSE rec[i]]
  ELSE Append(rec, [tag |-> t, values |-> <<v>>])

\* dict equality: same keys, same value list for every key
SameRecord(r1, r2) ==
  {r1[i] : i \in 1..Len(r1)} = {r2[i] : i \in 1..Len(r2)}

SameRecordList(l1, l2) ==
  /\ Len(l1) = Len(l2)
  /\ \A i \in 1..Len(l1) : SameRecord(l1[i], l2[i])

(***************************************************************************)
(* RIS exchange format                                                     *)
(***************************************************************************)
SEP == <<" ", " ", "-", " ">>

ER_LINE == <<"E", "R", " ", " ", "-", " ">>

TAG_ORDER ==
  << <<"T","Y">>, <<"T","I">>, <<"A","U">>, <<"P","Y">>, <<"D","A">>,
     <<"J","O">>, <<"J","F">>, <<"T","2">>, <<"V","L">>, <<"I","S">>,
     <<"S","P">>, <<"E","P">>, <<"S","N">>, <<"A","B">>, <<"K","W">>,
     <<"D","O">>, <<"U","R">>, <<"A","N">>, <<"N","1">>, <<"P","B">>,
     <<"C","Y">>, <<"B","T">>, <<"E","D">>, <<"T","3">> >>

InTagOrder(t) == \E i \in 1..Len(TAG_ORDER) : TAG_ORDER[i] = t

\* the lines "TAG  - value\n" of one tag
RECURSIVE write_values(_, _)
write_values(t, vs) ==
  IF vs = <<>> THEN <<>>
  ELSE t \o SEP \o Head(vs) \o <<"\n">> \o write_values(t, Tail(vs))

\* first loop of write_ris_file: the tags of tag_order that the record has
RECURSIVE write_ordered(_, _)
write_ordered(rec, order) ==
  IF order = <<>> THEN <<>>
  ELSE (IF HasTag(rec, Head(order))
        THEN write_values(Head(order), Get(rec, Head(order)))
        ELSE <<>>) \o write_ordered(rec, Tail(order))

\* second loop of write_ris_file: the remaining tags in dict order
RECURSIVE write_remaining(_)
write_remaining(rec) ==
  IF rec = <<>> THEN <<>>
  ELSE (IF InTagOrder(Head(rec).tag) THEN <<>>
        ELSE write_values(Head(rec).tag, Head(rec).values))
       \o write_remaining(Tail(rec))

write_record(rec) ==
  write_ordered(rec, TAG_ORDER) \o write_remaining(rec) \o ER_LINE \o <<"\n", "\n">>

\* write_ris_file of the filter stages (Step3_merge_ris_by_keyphrase, Step4..Step7)
RECURSIVE write_ris_file(_)
write_ris_file(recs) ==
  IF recs = <<>> THEN <<>>
  ELSE write_record(Head(recs)) \o write_ris_file(Tail(recs))

\* write_ris_file of Step3_merge_and_deduplicate: dict order, metadata tags
\* (leading underscore) skipped
RECURSIVE merge_write_record(_)
merge_write_record(rec) ==
  IF rec = <<>> THEN <<>>
  ELSE (IF StartsWith(Head(rec).tag, <<"_">>) THEN <<>>
        ELSE write_values(Head(rec).tag, Head(rec).values))
       \o merge_write_record(Tail(rec))

RECURSIVE merge_write_ris_file(_)
merge_write_ris_file(recs) ==
  IF recs = <<>> THEN <<>>
  ELSE merge_write_record(Head(recs)) \o ER_LINE \o <<"\n", "\n">>
       \o merge_write_ris_file(Tail(recs))

\* one iteration of the line loop of parse_ris_file; st = [recs, cur]
parse_line_lost(st, raw) ==
  LET line == RStripSet(raw, {"\n", "\r"})
  IN IF StartsWith(line, ER_LINE)
     THEN IF st.cur # <<>>
          THEN [recs |-> Append(st.recs, st.cur), cur |-> <<>>]
          ELSE st
     ELSE IF line # <<>> /\ Contains(line, SEP)
          THEN LET k == Find(line, SEP)
                   tag == Strip(SubSeq(line, 1, k - 1))
                   value == Strip(Drop(line, k + Len(SEP)))
               IN [st EXCEPT !.cur =
                     IF HasTag(st.cur, tag)
                     THEN [i \in 1..Len(st.cur) |->
                             IF st.cur[i].tag = tag
                             THEN [tag |-> tag, values |-> <<value>>]
                             ELSE st.cur[i]]
                     ELSE Append(st.cur, [tag |-> tag, values |-> <<value>>])]
          ELSE st

parse_line(st, raw) ==
  LET line == RStripSet(raw, {"\n", "\r"})
  IN IF StartsWith(line, ER_LINE)
     THEN IF st.cur # <<>>
          THEN [recs |-> Append(st.recs, st.cur), cur |-> <<>>]
          ELSE st
     ELSE IF line # <<>> /\ Contains(line, SEP)
          THEN LET k == Find(line, SEP)
                   tag == Strip(SubSeq(line, 1, k - 1))
                   value == Strip(Drop(line, k + Len(SEP)))
               IN [st EXCEPT !.cur = DictAppend(st.cur, tag, value)]
          ELSE st

RECURSIVE parse_lines(_, _)
parse_lines(st, lines) ==
  IF lines = <<>> THEN st
  ELSE parse_lines(parse_line(st, Head(lines)), Tail(lines))

\* parse_ris_file of the filter stages; a record without terminator is dropped
parse_ris_file(text) ==
  parse_lines([recs |-> <<>>, cur |-> <<>>], SplitLines(text)).recs

(***************************************************************************)
(* Serialize / parse round trip                                            *)
(***************************************************************************)
\* tag codes of the round-trip inputs: two ordered tags, written in the
\* order TI, AU whatever the dict order, an unknown tag and a metadata tag
RT_TAGS == { <<"T","I">>, <<"A","U">>, <<"Z","Z">>, <<"_","s">> }

\* single-line, trimmed values: empty, with inner blanks, with a separator
RT_VALUES == { <<>>, <<"a", " ", "b">>, <<"a", " ", " ", "-", " ", "b">> }

RECURSIVE LineCount(_)
LineCount(recs) ==
  IF recs = <<>> THEN 0
  ELSE LET r == Head(recs)
           RECURSIVE n(_)
           n(k) == IF k = 0 THEN 0 ELSE Len(r[k].values) + n(k - 1)
       IN n(Len(r)) + LineCount(Tail(recs))

\* the records without their metadata (provenance) tags
Bib(rec) == SelectSeq(rec, LAMBDA e : ~StartsWith(e.tag, <<"_">>))

BibList(recs) == [i \in 1..Len(recs) |-> Bib(recs[i])]

InitRT ==
  /\ pc = "build"
  /\ records = <<>>
  /\ rules = "none"
  /\ ris_text = <<>>
  /\ out_records = <<>>
  /\ stats = "none"

\* a producer starts a new record with a first tag line
NewRecord(t, v) ==
  /\ pc = "build"
  /\ LineCount(records) < MaxLines
  /\ records' = Append(records, <<[tag |-> t, values |-> <<v>>]>>)
  /\ UNCHANGED <<rules, pc, ris_text, out_records, stats>>

\* a producer adds a value to the record under construction
AddValue(t, v) ==
  /\ pc = "build"
  /\ records # <<>>
  /\ LineCount(records) < MaxLines
  /\ records' = [records EXCEPT ![Len(records)] = DictAppend(@, t, v)]
  /\ UNCHANGED <<rules, pc, ris_text, out_records, stats>>

Write ==
  /\ pc = "build"
  /\ ris_text' = write_ris_file(records)
  /\ pc' = "written"
  /\ UNCHANGED <<rules, records, out_records, stats>>

MergeWrite ==
  /\ pc = "build"
  /\ \A i \in 1..Len(records) : Bib(records[i]) # <<>>
  /\ ris_text' = merge_write_ris_file(records)
  /\ pc' = "merge_written"
  /\ UNCHANGED <<rules, records, out_records, stats>>

Parse ==
  /\ pc \in {"written", "merge_written"}
  /\ out_records' = parse_ris_file(ris_text)
  /\ pc' = IF pc = "written" THEN "parsed" ELSE "merge_parsed"
  /\ UNCHANGED <<rules, records, ris_text, stats>>

NextRT ==
  \/ \E t \in RT_TAGS, v \in RT_VALUES : NewRecord(t, v)
  \/ \E t \in RT_TAGS, v \in RT_VALUES : AddValue(t, v)
  \/ Write
  \/ MergeWrite
  \/ Parse

SpecRT == InitRT /\ [][NextRT]_vars

\* C1: parsing the text write_ris_file produces for a list of valid records
\* gives back the same number of records in the same order, each with the
\* same tags and, per tag, the same values in the same order (the writer of
\* Step3_merge_and_deduplicate leaves the metadata tags out by design)
C1_RoundTrip ==
  /\ pc = "parsed" => SameRecordList(out_records, records)
  /\ pc = "merge_parsed" => SameRecordList(out_records, BibList(records))

C1_Witness ==
  /\ pc = "parsed"
  /\ Len(records) = 2
  /\ \E i \in 1..Len(records) : \E j \in 1..Len(records[i]) :
       /\ Len(records[i][j].values) = 2
       /\ records[i][j].values[1] # records[i][j].values[2]
  /\ SameRecordList(out_records, records)

(***************************************************************************)
(* Deduplication                                                           *)
(***************************************************************************)
\* largest number of records in the flattened input of a deduplication
MaxRecs == 3

UPPER == <<"A","B","C","D","E","F","G","H","I","J","K","L","M",
           "N","O","P","Q","R","S","T","U","V","W","X","Y","Z">>

LOWER == <<"a","b","c","d","e","f","g","h","i","j","k","l","m",
           "n","o","p","q","r","s","t","u","v","w","x","y","z">>

LowerMap ==
  [c \in {UPPER[i] : i \in 1..Len(UPPER)} |->
     LOWER[CHOOSE i \in 1..Len(UPPER) : UPPER[i] = c]]

LowerChar(c) == IF c \in DOMAIN LowerMap THEN LowerMap[c] ELSE c

\* str.lower
Lower(s) == [i \in 1..Len(s) |-> LowerChar(s[i])]

\* s.replace(p, ''), p not empty
RECURSIVE Remove(_, _)
Remove(s, p) ==
  IF Len(s) < Len(p) THEN s
  ELSE IF StartsWith(s, p) THEN Remove(Drop(s, Len(p) + 1), p)
  ELSE <<Head(s)>> \o Remove(Tail(s), p)

\* re.sub('^p', '', s) for a literal p
RemovePrefix(s, p) == IF StartsWith(s, p) THEN Drop(s, Len(p) + 1) ELSE s

TI == <<"T", "I">>

DO == <<"D", "O">>

SOURCE == <<"_", "s", "o", "u", "r", "c", "e">>

DUPLICATE_SOURCES == <<"_", "d", "u", "p", "l", "i", "c", "a", "t", "e", "_", "s", "o", "u", "r", "c", "e", "s">>

HTTPS_DOI == <<"h", "t", "t", "p", "s", ":", "/", "/", "d", "o", "i", ".", "o", "r", "g", "/">>

HTTP_DOI == <<"h", "t", "t", "p", ":", "/", "/", "d", "o", "i", ".", "o", "r", "g", "/">>

HTTPS_DX_DOI == <<"h", "t", "t", "p", "s", ":", "/", "/", "d", "x", ".", "d", "o", "i", ".", "o", "r", "g", "/">>

HTTP_DX_DOI == <<"h", "t", "t", "p", ":", "/", "/", "d", "x", ".", "d", "o", "i", ".", "o", "r", "g", "/">>

DOI_COLON == <<"d", "o", "i", ":">>

UNKNOWN_TITLE == <<"U", "n", "k", "n", "o", "w", "n">>

\* "no DOI" result of get_doi_from_record and normalize_doi; no string of
\* one-character strings equals it
None == <<"None">>

\* the truth value Python gives a key: None and '' are false
Truthy(x) == x # None /\ x # <<>>

\* Step3_merge_ris_by_keyphrase.get_doi_from_record
get_doi_from_record(record) ==
  IF HasTag(record, DO) /\ Get(record, DO) # <<>>
  THEN Lower(Remove(Remove(Remove(Strip(Get(record, DO)[1]),
                                  HTTPS_DOI), HTTP_DOI), DOI_COLON))
  ELSE None

\* get_title_from_record of Step3_merge_ris_by_keyphrase: title[:100]
get_title_from_record(record) ==
  IF HasTag(record, TI) /\ Get(record, TI) # <<>>
  THEN SubSeq(Get(record, TI)[1], 1, Min(100, Len(Get(record, TI)[1])))
  ELSE UNKNOWN_TITLE

\* seen_dois[doi] of deduplicate_records; seen = sequence of [doi, record]
Seen(seen, doi) == \E i \in 1..Len(seen) : seen[i].doi = doi

SeenRecord(seen, doi) == seen[CHOOSE i \in 1..Len(seen) : seen[i].doi = doi].record

\* one iteration of the loop of deduplicate_records that forgets a DOI once
\* a duplicate of it was dropped
dedup_step_forget(st, record) ==
  LET doi == get_doi_from_record(record)
  IN IF Truthy(doi)
     THEN IF Seen(st.seen_dois, doi)
          THEN [st EXCEPT
                 !.seen_dois = SelectSeq(@, LAMBDA e : e.doi # doi),
                 !.duplicates = Append(@,
                    [doi |-> doi,
                     title |-> get_title_from_record(record),
                     original_title |->
                        get_title_from_record(SeenRecord(st.seen_dois, doi))])]
          ELSE [st EXCEPT
                 !.seen_dois = Append(@, [doi |-> doi, record |-> record]),
                 !.unique_records = Append(@, record)]
     ELSE [st EXCEPT
            !.unique_records = Append(@, record),
            !.no_doi_count = @ + 1]

\* one iteration of the loop of deduplicate_records
dedup_step(st, record) ==
  LET doi == get_doi_from_record(record)
  IN IF Truthy(doi)
     THEN IF Seen(st.seen_dois, doi)
          THEN [st EXCEPT
                 !.duplicates = Append(@,
                    [doi |-> doi,
                     title |-> get_title_from_record(record),
                     original_title |->
                        get_title_from_record(SeenRecord(st.seen_dois, doi))])]
          ELSE [st EXCEPT
                 !.seen_dois = Append(@, [doi |-> doi, record |-> record]),
                 !.unique_records = Append(@, record)]
     ELSE [st EXCEPT
            !.unique_records = Append(@, record),
            !.no_doi_count = @ + 1]

RECURSIVE dedup_loop(_, _)
dedup_loop(st, recs) ==
  IF recs = <<>> THEN st
  ELSE dedup_loop(dedup_step(st, Head(recs)), Tail(recs))

\* Step3_merge_ris_by_keyphrase.deduplicate_records
deduplicate_records(recs) ==
  dedup_loop([unique_records |-> <<>>, seen_dois |-> <<>>,
              duplicates |-> <<>>, no_doi_count |-> 0], recs)

\* Step3_merge_and_deduplicate.normalize_doi on a string
normalize_doi(doi) ==
  IF doi = <<>> THEN None
  ELSE LET d1 == Strip(Lower(doi))
           d2 == IF StartsWith(d1, HTTPS_DX_DOI) THEN RemovePrefix(d1, HTTPS_DX_DOI)
                 ELSE IF StartsWith(d1, HTTP_DX_DOI) THEN RemovePrefix(d1, HTTP_DX_DOI)
                 ELSE IF StartsWith(d1, HTTPS_DOI) THEN RemovePrefix(d1, HTTPS_DOI)
                 ELSE RemovePrefix(d1, HTTP_DOI)
       IN Strip(RemovePrefix(d2, DOI_COLON))

\* The parse_ris_file of Step3_merge_and_deduplicate stores the value of a
\* tag that occurs once as a string and of a tag that occurs more than once
\* as a list: here a value sequence of length 1 stands for the string, a
\* longer one for the list.
IsList(vs) == Len(vs) >= 2

\* record['_source'] = source_name
SetSource(record, src) == Append(record, [tag |-> SOURCE, values |-> <<src>>])

\* existing['_duplicate_sources'] of the first-seen record, extended in place
AddDuplicateSource(existing, src) ==
  IF HasTag(existing, DUPLICATE_SOURCES)
  THEN DictAppend(existing, DUPLICATE_SOURCES, src)
  ELSE Append(existing,
              [tag |-> DUPLICATE_SOURCES,
               values |-> <<Get(existing, SOURCE)[1], src>>])

\* doi_to_record of merge_and_deduplicate: sequence of [doi, idx], idx the
\* position in all_records of the record object the dict holds
FirstIdx(d2r, doi) == d2r[CHOOSE i \in 1..Len(d2r) : d2r[i].doi = doi].idx

\* one iteration of the dedup loop of merge_and_deduplicate; normalize_doi
\* raises AttributeError on a list (list has no lower()), which ends the loop
merge_step(st, i) ==
  LET record == st.all_records[i]
      dov == GetOr(record, DO)
  IN IF st.raised THEN st
     ELSE IF IsList(dov) THEN [st EXCEPT !.raised = TRUE]
     ELSE LET doi == normalize_doi(IF dov = <<>> THEN <<>> ELSE dov[1])
          IN IF Truthy(doi)
             THEN IF \E k \in 1..Len(st.doi_to_record) : st.doi_to_record[k].doi = doi
                  THEN LET e == FirstIdx(st.doi_to_record, doi)
                       IN [st EXCEPT
                            !.records_with_doi = @ + 1,
                            !.duplicate_count = @ + 1,
                            !.all_records[e] =
                               AddDuplicateSource(@, Get(record, SOURCE)[1])]
                  ELSE [st EXCEPT
                         !.records_with_doi = @ + 1,
                         !.doi_to_record = Append(@, [doi |-> doi, idx |-> i])]
             ELSE [st EXCEPT
                    !.records_without_doi = Append(@, i)]

RECURSIVE merge_loop(_, _)
merge_loop(st, i) ==
  IF i > Len(st.all_records) THEN st
  ELSE merge_loop(merge_step(st, i), i + 1)


\* merge_and_deduplicate whose output lists the values of doi_to_record
\* from the last inserted to the first
merge_and_deduplicate_reversed(all_records) ==
  LET st == merge_loop([all_records |-> all_records, doi_to_record |-> <<>>,
                        records_without_doi |-> <<>>, records_with_doi |-> 0,
                        duplicate_count |-> 0, raised |-> FALSE], 1)
      n == Len(st.doi_to_record)
      unique_records ==
        [k \in 1..n |-> st.all_records[st.doi_to_record[n + 1 - k].idx]]
        \o [k \in 1..Len(st.records_without_doi) |->
              st.all_records[st.records_without_doi[k]]]
  IN [raised |-> st.raised,
      all_records |-> st.all_records,
      unique_records |-> IF st.raised THEN <<>> ELSE unique_records,
      stats |-> [total_records_before |-> Len(all_records),
                 records_with_doi |-> st.records_with_doi,
                 records_without_doi |-> Len(st.records_without_doi),
                 duplicates_removed |-> st.duplicate_count,
                 total_records_after |-> IF st.raised THEN 0 ELSE Len(unique_records)]]

\* dedup part of Step3_merge_and_deduplicate.merge_and_deduplicate
merge_and_deduplicate(all_records) ==
  LET st == merge_loop([all_records |-> all_records, doi_to_record |-> <<>>,
                        records_without_doi |-> <<>>, records_with_doi |-> 0,
                        duplicate_count |-> 0, raised |-> FALSE], 1)
      unique_records ==
        [k \in 1..Len(st.doi_to_record) |-> st.all_records[st.doi_to_record[k].idx]]
        \o [k \in 1..Len(st.records_without_doi) |->
              st.all_records[st.records_without_doi[k]]]
  IN [raised |-> st.raised,
      all_records |-> st.all_records,
      unique_records |-> IF st.raised THEN <<>> ELSE unique_records,
      stats |-> [total_records_before |-> Len(all_records),
                 records_with_doi |-> st.records_with_doi,
                 records_without_doi |-> Len(st.records_without_doi),
                 duplicates_removed |-> st.duplicate_count,
                 total_records_after |-> IF st.raised THEN 0 ELSE Len(unique_records)]]

\* source folders, in the order main() passes them
ACM == <<"a", "c", "m">>

PUBMED == <<"p", "u", "b", "m", "e", "d">>

\* titles and DO values of the records a parser hands to the deduplicators:
\* no DO tag, an empty DO value, plain, prefixed and upper-case DOIs, and a
\* DO tag that occurs twice
DEDUP_TITLES == { <<"p">>, <<"q">> }

DEDUP_DOIS ==
  { <<>>,
    << <<>> >>,
    << <<"1", "/", "a">> >>,
    << <<"d", "o", "i", ":", "1", "/", "A">> >>,
    << <<"1", "/", "b">> >>,
    << <<"1", "/", "b">>, <<"1", "/", "a">> >> }

DedupRecord(title, dois) ==
  IF dois = <<>> THEN << [tag |-> TI, values |-> <<title>>] >>
  ELSE << [tag |-> TI, values |-> <<title>>], [tag |-> DO, values |-> dois] >>

InitDedup ==
  /\ pc = "collect"
  /\ records = <<>>
  /\ rules = "none"
  /\ ris_text = <<>>
  /\ out_records = <<>>
  /\ stats = "none"

\* all_records.extend(records): one more parsed record joins the flattened input
Collect(title, dois) ==
  /\ pc = "collect"
  /\ Len(records) < MaxRecs
  /\ records' = Append(records, DedupRecord(title, dois))
  /\ UNCHANGED <<rules, pc, ris_text, out_records, stats>>

\* Step3_merge_ris_by_keyphrase: deduplicate_records(all_records)
Dedup ==
  /\ pc = "collect"
  /\ LET r == deduplicate_records(records)
     IN /\ out_records' = r.unique_records
        /\ stats' = [duplicates |-> r.duplicates, no_doi_count |-> r.no_doi_count]
  /\ pc' = "deduped"
  /\ UNCHANGED <<rules, records, ris_text>>

\* the deduplicator applied to its own output
DedupAgain ==
  /\ pc = "deduped"
  /\ records' = out_records
  /\ LET r == deduplicate_records(out_records)
     IN /\ out_records' = r.unique_records
        /\ stats' = [duplicates |-> r.duplicates, no_doi_count |-> r.no_doi_count]
  /\ pc' = "deduped_again"
  /\ UNCHANGED <<rules, ris_text>>

\* Step3_merge_and_deduplicate: the first k records come from the first
\* folder, the others from the second; the records are tagged with their
\* source and deduplicated; all_records holds the (mutated) record objects
MergeDedup(k) ==
  /\ pc = "collect"
  /\ LET tagged == [i \in 1..Len(records) |->
                      SetSource(records[i], IF i <= k THEN ACM ELSE PUBMED)]
         r == merge_and_deduplicate(tagged)
     IN /\ records' = r.all_records
        /\ out_records' = r.unique_records
        /\ stats' = IF r.raised THEN "none" ELSE r.stats
        /\ pc' = IF r.raised THEN "raised" ELSE "merged"
  /\ UNCHANGED <<rules, ris_text>>

\* merge_and_deduplicate applied to its own output
MergeAgain ==
  /\ pc = "merged"
  /\ LET r == merge_and_deduplicate(out_records)
     IN /\ records' = out_records
        /\ out_records' = r.unique_records
        /\ stats' = IF r.raised THEN "none" ELSE r.stats
        /\ pc' = IF r.raised THEN "raised_again" ELSE "merged_again"
  /\ UNCHANGED <<rules, ris_text>>

NextDedup ==
  \/ \E t \in DEDUP_TITLES, d \in DEDUP_DOIS : Collect(t, d)
  \/ Dedup
  \/ DedupAgain
  \/ \E k \in 0..Len(records) : MergeDedup(k)
  \/ MergeAgain

SpecDedup == InitDedup /\ [][NextDedup]_vars

\* C2: applying a deduplicator to its own output drops nothing and returns
\* the same record list
C2_DedupIdempotent ==
  /\ pc = "deduped_again" =>
       /\ out_records = records
       /\ stats.duplicates = <<>>
  /\ pc = "merged_again" =>
       /\ out_records = records
       /\ stats.duplicates_removed = 0
  /\ pc # "raised_again"

C2_Witness ==
  /\ pc \in {"deduped_again", "merged_again"}
  /\ Len(out_records) >= 2
  /\ out_records = records
  /\ \E i \in 1..Len(records) : ~HasTag(records[i], DO)
  /\ \E i \in 1..Len(records) : HasTag(records[i], DUPLICATE_SOURCES)

\* the dedup key the variant that ran gives a record; a list of DO values
\* has no key in merge_and_deduplicate
KeyOf(rec) ==
  IF pc = "deduped" THEN get_doi_from_record(rec)
  ELSE IF GetOr(rec, DO) = <<>> \/ IsList(GetOr(rec, DO)) THEN None
  ELSE normalize_doi(Get(rec, DO)[1])

Positions(recs, k) == {i \in 1..Len(recs) : KeyOf(recs[i]) = k}

FirstPosition(recs, k) ==
  CHOOSE i \in Positions(recs, k) : \A j \in Positions(recs, k) : i <= j

\* C3: for every normalized DOI that occurs more than once in the flattened
\* input, the output of the deduplicator holds exactly one record with that
\* DOI, the one at the smallest input position
C3_FirstSeenWins ==
  pc \in {"deduped", "merged", "raised"} =>
    \A i \in 1..Len(records) :
      LET k == KeyOf(records[i])
      IN (Truthy(k) /\ Cardinality(Positions(records, k)) > 1) =>
           /\ Cardinality(Positions(out_records, k)) = 1
           /\ \A j \in Positions(out_records, k) :
                out_records[j] = records[FirstPosition(records, k)]

\* a record without DO tag, or whose (first) DO value is empty
NoDoi(rec) == GetOr(rec, DO) = <<>> \/ Strip(GetOr(rec, DO)[1]) = <<>>

Occurrences(recs, rec) == Cardinality({i \in 1..Len(recs) : recs[i] = rec})

\* C4: every input record without DO tag or with an empty DO value is in the
\* output of the deduplicator, once per input occurrence
C4_NoDoiKept ==
  pc \in {"deduped", "merged", "raised"} =>
    \A i \in 1..Len(records) :
      NoDoi(records[i]) =>
        Occurrences(out_records, records[i]) = Occurrences(records, records[i])

(***************************************************************************)
(* Text of the classification stages                                       *)
(*                                                                         *)
(* The values of the text tags (TI, AB, KW) are sequences of tokens.  A    *)
(* token stands for a stretch of text that is one match of exactly one     *)
(* pattern of the rule tables (named by the token) and of no other         *)
(* pattern; "w" is a word no pattern matches.  ' '.join and string         *)
(* concatenation are concatenation of token sequences, re.findall counts   *)
(* the tokens of a pattern, re.search tests whether there is one.          *)
(***************************************************************************)
AB == <<"A", "B">>

KW == <<"K", "W">>

\* ' '.join(record.get(tag, ['']))
JoinText(record, tag) == Concat(GetOr(record, tag))

\* len(re.findall(pattern, text)) summed over the patterns of a table
RECURSIVE CountMatches(_, _)
CountMatches(text, patterns) ==
  IF text = <<>> THEN 0
  ELSE (IF Head(text) \in patterns THEN 1 ELSE 0) + CountMatches(Tail(text), patterns)

\* the patterns of a table with at least one match in the text
Matched(text, patterns) == {q \in patterns : \E i \in 1..Len(text) : text[i] = q}

(***************************************************************************)
(* Step6_filter_by_content: content filter                                 *)
(***************************************************************************)
POS_PHRASES == {"pos1", "pos2"}

MODEL_VERBS == {"verb1", "verb2"}

ML_SIGNALS == {"ml1", "ml2"}

NEG_PHRASES == {"neg1", "neg2"}

ML_CAP == 3

TITLE_BONUS == 2

TITLE_PENALTY == 3

get_text_content(record) ==
  [title |-> JoinText(record, TI),
   abstract |-> JoinText(record, AB),
   keywords |-> JoinText(record, KW),
   full_text |-> JoinText(record, TI) \o JoinText(record, AB) \o JoinText(record, KW)]

check_positive_signals(text_dict) ==
  [pos_score |-> CountMatches(text_dict.full_text, POS_PHRASES),
   verb_score |-> Cardinality(Matched(text_dict.full_text, MODEL_VERBS)),
   ml_score |-> Min(CountMatches(text_dict.full_text, ML_SIGNALS), ML_CAP),
   title_bonus |-> TITLE_BONUS * Cardinality(Matched(text_dict.title, POS_PHRASES))]

check_negative_signals(text_dict) ==
  [neg_score |-> CountMatches(text_dict.full_text, NEG_PHRASES)
                 + TITLE_PENALTY * Cardinality(Matched(text_dict.title, NEG_PHRASES))]

STRONG_POSITIVE == "Strong positive signals"

MODERATE_POSITIVE == "Moderate positive signals"

STRONG_NEGATIVE == "Strong negative signals (cohort/metadata use)"

WEAK_POSITIVE == "Weak positive signals"

NO_SIGNAL == "No clear ICD coding task signals"

\* the decision of should_keep_record with the weak-positive rule tested
\* before the strong-negative rule
content_decision_weak_first(positive_score, negative_score) ==
  IF positive_score >= 3 THEN [keep |-> TRUE, reason |-> STRONG_POSITIVE]
  ELSE IF positive_score >= 2 /\ negative_score <= 2
       THEN [keep |-> TRUE, reason |-> MODERATE_POSITIVE]
  ELSE IF positive_score > 0 THEN [keep |-> TRUE, reason |-> WEAK_POSITIVE]
  ELSE IF negative_score >= 3 /\ positive_score < 2
       THEN [keep |-> FALSE, reason |-> STRONG_NEGATIVE]
  ELSE [keep |-> FALSE, reason |-> NO_SIGNAL]

\* the if-chain of should_keep_record
content_decision(positive_score, negative_score) ==
  IF positive_score >= 3 THEN [keep |-> TRUE, reason |-> STRONG_POSITIVE]
  ELSE IF positive_score >= 2 /\ negative_score <= 2
       THEN [keep |-> TRUE, reason |-> MODERATE_POSITIVE]
  ELSE IF negative_score >= 3 /\ positive_score < 2
       THEN [keep |-> FALSE, reason |-> STRONG_NEGATIVE]
  ELSE IF positive_score > 0 THEN [keep |-> TRUE, reason |-> WEAK_POSITIVE]
  ELSE [keep |-> FALSE, reason |-> NO_SIGNAL]


\* should_keep_record that decides on the phrase score alone
should_keep_record_phrases_only(record) ==
  LET text_dict == get_text_content(record)
      pos_signals == check_positive_signals(text_dict)
      neg_signals == check_negative_signals(text_dict)
      positive_score == pos_signals.pos_score + pos_signals.verb_score
                        + pos_signals.ml_score + pos_signals.title_bonus
      negative_score == neg_signals.neg_score
      d == content_decision(pos_signals.pos_score, negative_score)
  IN [keep |-> d.keep, reason |-> d.reason,
      scores |-> [positive |-> positive_score, negative |-> negative_score]]

should_keep_record(record) ==
  LET text_dict == get_text_content(record)
      pos_signals == check_positive_signals(text_dict)
      neg_signals == check_negative_signals(text_dict)
      positive_score == pos_signals.pos_score + pos_signals.verb_score
                        + pos_signals.ml_score + pos_signals.title_bonus
      negative_score == neg_signals.neg_score
      d == content_decision(positive_score, negative_score)
  IN [keep |-> d.keep, reason |-> d.reason,
      scores |-> [positive |-> positive_score, negative |-> negative_score]]

\* largest number of tokens in the title, and in the abstract, of a record
\* given to should_keep_record
MaxTokens == 2

CONTENT_TOKENS == {"pos1", "verb1", "ml1", "neg1", "neg2", "w"}

TokenSeqs(n) == UNION {[1..k -> CONTENT_TOKENS] : k \in 0..n}

\* a parsed record with the given title and abstract (no tag for no text)
TextRecord(title, abstract) ==
  (IF title = <<>> THEN <<>> ELSE << [tag |-> TI, values |-> <<title>>] >>)
  \o (IF abstract = <<>> THEN <<>> ELSE << [tag |-> AB, values |-> <<abstract>>] >>)

InitContent ==
  /\ pc = "record"
  /\ \E title \in TokenSeqs(MaxTokens), abstract \in TokenSeqs(MaxTokens) :
       records = << TextRecord(title, abstract) >>
  /\ rules = "none"
  /\ ris_text = <<>>
  /\ out_records = <<>>
  /\ stats = "none"

ShouldKeepRecord ==
  /\ pc = "record"
  /\ stats' = should_keep_record(records[1])
  /\ pc' = "decided"
  /\ UNCHANGED <<records, rules, ris_text, out_records>>

NextContent == ShouldKeepRecord

SpecContent == InitContent /\ [][NextContent]_vars

\* C8: should_keep_record returns the outcome of the first rule that matches
\* the scores p and n, in the order: p>=3 keep (strong positive); p>=2 and
\* n<=2 keep (moderate positive); n>=3 and p<2 reject (strong negative); p>0
\* keep (weak positive); otherwise reject (no signal)
C8_DecisionTable ==
  pc = "decided" =>
    LET p == stats.scores.positive
        n == stats.scores.negative
        r1 == p >= 3
        r2 == p >= 2 /\ n <= 2
        r3 == n >= 3 /\ p < 2
        r4 == p > 0
    IN /\ r1 => (stats.keep /\ stats.reason = "Strong positive signals")
       /\ (~r1 /\ r2) => (stats.keep /\ stats.reason = "Moderate positive signals")
       /\ (~r1 /\ ~r2 /\ r3) =>
            (~stats.keep /\ stats.reason = "Strong negative signals (cohort/metadata use)")
       /\ (~r1 /\ ~r2 /\ ~r3 /\ r4) =>
            (stats.keep /\ stats.reason = "Weak positive signals")
       /\ (~r1 /\ ~r2 /\ ~r3 /\ ~r4) =>
            (~stats.keep /\ stats.reason = "No clear ICD coding task signals")

\* the record of the spec's scenario: positive score 4, negative score 5
C8_Witness ==
  /\ pc = "decided"
  /\ stats.scores.positive = 4
  /\ stats.scores.negative = 5
  /\ stats.keep
  /\ stats.reason = "Strong positive signals"

(***************************************************************************)
(* Step4_filter_by_journal: journal allow-list                             *)
(***************************************************************************)
\* largest number of records in the input of a journal or type filter run
MaxStage == 2

JO == <<"J", "O">>

JF == <<"J", "F">>

T2 == <<"T", "2">>

TARGET_JOURNALS ==
  << <<"J", "o", "u", "r", "n", "a", "l", " ", "o", "f", " ", "B", "i", "o",
     "m", "e", "d", "i", "c", "a", "l", " ", "I", "n", "f", "o", "r", "m", "a",
     "t", "i", "c", "s">>,
     <<"J", "o", "u", "r", "n", "a", "l", " ", "o", "f", " ", "t", "h", "e", " ", "A", "m", "e", "r", "i", "c", "a", "n", " ", "M", "e", "d", "i", "c",
     "a", "l", " ", "I", "n", "f", "o", "r", "m", "a", "t", "i", "c", "s", " ",
     "A", "s", "s", "o", "c", "i", "a", "t", "i", "o", "n">>,
     <<"I", "n", "t", "e", "r", "n", "a", "t", "i", "o", "n", "a", "l", " ",
     "J", "o", "u", "r", "n", "a", "l", " ", "o", "f", " ", "M", "e", "d", "i",
     "c", "a", "l", " ", "I", "n", "f", "o", "r", "m", "a", "t", "i", "c",
     "s">>,
     <<"B", "M", "C", " ", "M", "e", "d", "i", "c", "a", "l", " ", "I", "n",
     "f", "o", "r", "m", "a", "t", "i", "c", "s", " ", "a", "n", "d", " ", "D",
     "e", "c", "i", "s", "i", "o", "n", " ", "M", "a", "k", "i", "n", "g">>,
     <<"S", "t", "u", "d", "i", "e", "s", " ", "i", "n", " ", "H", "e", "a",
     "l", "t", "h", " ", "T", "e", "c", "h", "n", "o", "l", "o", "g", "y", " ",
     "a", "n", "d", " ", "I", "n", "f", "o", "r", "m", "a", "t", "i", "c",
     "s">>,
     <<"C", "o", "m", "p", "u", "t", "e", "r", "s", " ", "i", "n", " ", "B",
     "i", "o", "l", "o", "g", "y", " ", "a", "n", "d", " ", "M", "e", "d", "i",
     "c", "i", "n", "e">>,
     <<"I", "E", "E", "E", " ", "A", "c", "c", "e", "s", "s">>,
     <<"E", "x", "p", "e", "r", "t", " ", "S", "y", "s", "t", "e", "m", "s", " ", "w", "i", "t", "h", " ", "A", "p", "p", "l", "i", "c", "a", "t", "i",
     "o", "n", "s">>,
     <<"B", "i", "o", "m", "e", "d", "i", "c", "a", "l", " ", "S", "i", "g",
     "n", "a", "l", " ", "P", "r", "o", "c", "e", "s", "s", "i", "n", "g", " ",
     "a", "n", "d", " ", "C", "o", "n", "t", "r", "o", "l">>,
     <<"S", "e", "n", "s", "o", "r", "s">>,
     <<"A", "p", "p", "l", "i", "e", "d", " ", "S", "c", "i", "e", "n", "c",
     "e", "s", " ", "S", "w", "i", "t", "z", "e", "r", "l", "a", "n", "d">> >>

\* str.split(): the maximal runs of non-whitespace characters
RECURSIVE WordEnd(_, _)
WordEnd(t, i) ==
  IF i > Len(t) \/ t[i] \in Whitespace THEN i - 1 ELSE WordEnd(t, i + 1)

RECURSIVE SplitWords(_)
SplitWords(s) ==
  LET t == LStripSet(s, Whitespace)
  IN IF t = <<>> THEN <<>>
     ELSE LET n == WordEnd(t, 1)
          IN <<SubSeq(t, 1, n)>> \o SplitWords(Drop(t, n + 1))

\* ' '.join(words)
RECURSIVE JoinWords(_)
JoinWords(ws) ==
  IF ws = <<>> THEN <<>>
  ELSE IF Len(ws) = 1 THEN ws[1]
  ELSE ws[1] \o <<" ">> \o JoinWords(Tail(ws))

normalize_journal_name(journal_name) ==
  IF journal_name = <<>> THEN <<>>
  ELSE JoinWords(SplitWords(
         SelectSeq(Strip(Lower(journal_name)),
                   LAMBDA c : c \notin {":", ",", "."})))

get_journal_from_record(record) ==
  IF HasTag(record, JO) /\ Get(record, JO) # <<>> THEN Strip(Get(record, JO)[1])
  ELSE IF HasTag(record, JF) /\ Get(record, JF) # <<>> THEN Strip(Get(record, JF)[1])
  ELSE IF HasTag(record, T2) /\ Get(record, T2) # <<>> THEN Strip(Get(record, T2)[1])
  ELSE None

\* the loop of matches_target_journal over the targets
RECURSIVE match_loop(_, _)
match_loop(normalized_journal, target_journals) ==
  IF target_journals = <<>> THEN None
  ELSE LET normalized_target == normalize_journal_name(Head(target_journals))
       IN IF normalized_journal = normalized_target THEN Head(target_journals)
          ELSE IF Contains(normalized_journal, normalized_target)
               THEN Head(target_journals)
          ELSE match_loop(normalized_journal, Tail(target_journals))

\* matches_target_journal with the exact-match test only
RECURSIVE matches_target_exact_only(_, _)
matches_target_exact_only(journal_name, target_journals) ==
  IF ~Truthy(journal_name) \/ target_journals = <<>> THEN None
  ELSE IF normalize_journal_name(journal_name)
            = normalize_journal_name(Head(target_journals))
       THEN Head(target_journals)
  ELSE matches_target_exact_only(journal_name, Tail(target_journals))

\* the matched target, or None
matches_target_journal(journal_name, target_journals) ==
  IF ~Truthy(journal_name) THEN None
  ELSE match_loop(normalize_journal_name(journal_name), target_journals)

\* collections.Counter: a function from the keys counted so far to counts
EmptyCounter == <<>>

CounterInc(c, k) ==
  IF k \in DOMAIN c THEN [c EXCEPT ![k] = @ + 1]
  ELSE [x \in DOMAIN c \cup {k} |-> IF x = k THEN 1 ELSE c[x]]

RECURSIVE CounterTotal(_)
CounterTotal(c) ==
  IF DOMAIN c = {} THEN 0
  ELSE LET k == CHOOSE x \in DOMAIN c : TRUE
       IN c[k] + CounterTotal([x \in DOMAIN c \ {k} |-> c[x]])

\* one iteration of the loop of filter_by_journal that drops a record
\* without journal and does not count it
journal_step_uncounted(st, record, target_journals) ==
  LET journal == get_journal_from_record(record)
  IN IF ~Truthy(journal)
     THEN st
     ELSE LET matched_target == matches_target_journal(journal, target_journals)
          IN IF matched_target # None
             THEN [st EXCEPT !.filtered_records = Append(@, record),
                             !.matched = CounterInc(@, matched_target)]
             ELSE [st EXCEPT !.unmatched = CounterInc(@, journal)]

\* one iteration of the loop of filter_by_journal
journal_step(st, record, target_journals) ==
  LET journal == get_journal_from_record(record)
  IN IF ~Truthy(journal)
     THEN [st EXCEPT !.no_journal = @ + 1]
     ELSE LET matched_target == matches_target_journal(journal, target_journals)
          IN IF matched_target # None
             THEN [st EXCEPT !.filtered_records = Append(@, record),
                             !.matched = CounterInc(@, matched_target)]
             ELSE [st EXCEPT !.unmatched = CounterInc(@, journal)]

RECURSIVE journal_loop(_, _, _)
journal_loop(st, recs, target_journals) ==
  IF recs = <<>> THEN st
  ELSE journal_loop(journal_step(st, Head(recs), target_journals),
                    Tail(recs), target_journals)

filter_by_journal(recs, target_journals) ==
  journal_loop([filtered_records |-> <<>>, matched |-> EmptyCounter,
                unmatched |-> EmptyCounter, no_journal |-> 0],
               recs, target_journals)

JOURNAL_NAMES ==
  { <<"J", "o", "u", "r", "n", "a", "l", " ", "o", "f", " ", "B", "i", "o",
    "m", "e", "d", "i", "c", "a", "l", " ", "I", "n", "f", "o", "r", "m", "a",
    "t", "i", "c", "s", ":", " ", "O", "f", "f", "i", "c", "i", "a", "l", " ",
    "J", "o", "u", "r", "n", "a", "l">>,
    <<"S", "E", "N", "S", "O", "R", "S", ".">>,
    <<"S", "e", "n", "s", "o", "r">>,
    <<"i", "e", "e", "e", " ", " ", " ", "a", "c", "c", "e", "s", "s">>,
    <<"N", "a", "t", "u", "r", "e">>,
    <<":">> }

JOURNAL_VALUES == { <<>>, << <<>> >> } \cup { <<n>> : n \in JOURNAL_NAMES }

JOURNAL_RULES ==
  { TARGET_JOURNALS,
    << <<"S", "e", "n", "s", "o", "r", "s">> >>,
    << <<"I", "E", "E", "E", " ", "A", "c", "c", "e", "s", "s">>, <<".">> >>,
    << >> }

JournalRecord(jo, jf, t2) ==
  (IF jo = <<>> THEN <<>> ELSE << [tag |-> JO, values |-> jo] >>)
  \o (IF jf = <<>> THEN <<>> ELSE << [tag |-> JF, values |-> jf] >>)
  \o (IF t2 = <<>> THEN <<>> ELSE << [tag |-> T2, values |-> t2] >>)
  \o << [tag |-> TI, values |-> << <<"w">> >>] >>

\* records with a JO tag only, and records whose JO tag is absent or empty
\* and that name a journal in JF or T2
JOURNAL_RECORDS ==
  { JournalRecord(jo, <<>>, <<>>) : jo \in JOURNAL_VALUES }
  \cup { JournalRecord(<<>>, << <<"S", "e", "n", "s", "o", "r", "s">> >>, <<>>),
         JournalRecord(<<>>, <<>>, << <<"I", "E", "E", "E", " ", "A", "c", "c", "e", "s", "s">> >>),
         JournalRecord(<< <<>> >>, << <<"S", "e", "n", "s", "o", "r", "s">> >>, <<>>) }

InitJournal ==
  /\ pc = "collect"
  /\ records = <<>>
  /\ rules \in JOURNAL_RULES
  /\ ris_text = <<>>
  /\ out_records = <<>>
  /\ stats = "none"

\* records = parse_ris_file(input_file): one more record of the input file
JournalInput(record) ==
  /\ pc = "collect"
  /\ Len(records) < MaxStage
  /\ records' = Append(records, record)
  /\ UNCHANGED <<pc, rules, ris_text, out_records, stats>>

FilterByJournal ==
  /\ pc = "collect"
  /\ LET r == filter_by_journal(records, rules)
     IN /\ out_records' = r.filtered_records
        /\ stats' = [matched |-> r.matched, unmatched |-> r.unmatched,
                     no_journal |-> r.no_journal]
  /\ pc' = "journal_done"
  /\ UNCHANGED <<records, rules, ris_text>>

NextJournal ==
  \/ \E record \in JOURNAL_RECORDS : JournalInput(record)
  \/ FilterByJournal

SpecJournal == InitJournal /\ [][NextJournal]_vars

\* a is a contiguous part of b
IsSubstring(a, b) ==
  \E off \in 0..(Len(b) - Len(a)) : \A j \in 1..Len(a) : b[off + j] = a[j]

\* the rule of the claim for one record
AllowListed(record, target_journals) ==
  LET name == get_journal_from_record(record)
  IN /\ name # None
     /\ name # <<>>
     /\ \E t \in 1..Len(target_journals) :
          \/ normalize_journal_name(target_journals[t]) = normalize_journal_name(name)
          \/ IsSubstring(normalize_journal_name(target_journals[t]),
                         normalize_journal_name(name))

TY == <<"T", "Y">>

JOUR == <<"J", "O", "U", "R">>

CONF == <<"C", "O", "N", "F">>

BOOK == <<"B", "O", "O", "K">>

CHAP == <<"C", "H", "A", "P">>

KEEP_TYPES == <<JOUR, CONF>>

REMOVE_TYPES == <<BOOK, CHAP>>

\* the Python operator "x in list"
InList(x, list) == \E i \in 1..Len(list) : list[i] = x

get_type_from_record(record) ==
  IF HasTag(record, TY) /\ Get(record, TY) # <<>> THEN Strip(Get(record, TY)[1])
  ELSE None

\* title of a record in the examples a stage keeps; the titles of the model
\* are shorter than the 80 (100) characters after which the code cuts
example_title(record) ==
  IF HasTag(record, TI) /\ Get(record, TI) # <<>> THEN Get(record, TI)[1]
  ELSE UNKNOWN_TITLE

\* removed_examples[article_type], at most 3 titles per type
AddExample(examples, k, title, cap) ==
  IF k \in DOMAIN examples
  THEN IF Len(examples[k]) < cap
       THEN [examples EXCEPT ![k] = Append(@, title)]
       ELSE examples
  ELSE [x \in DOMAIN examples \cup {k} |-> IF x = k THEN <<title>> ELSE examples[x]]

\* one iteration of the loop of filter_by_type that tests the remove list
\* before the keep list and removes the types it does not know
type_step_closed(st, record, keep_types, remove_types) ==
  LET article_type == get_type_from_record(record)
  IN IF ~Truthy(article_type)
     THEN [st EXCEPT !.filtered_records = Append(@, record),
                     !.no_type = @ + 1]
     ELSE IF InList(article_type, keep_types) /\ ~InList(article_type, remove_types)
          THEN [st EXCEPT !.filtered_records = Append(@, record),
                          !.kept = CounterInc(@, article_type)]
     ELSE [st EXCEPT !.removed = CounterInc(@, article_type),
                     !.examples = AddExample(@, article_type,
                                             example_title(record), 3)]

\* one iteration of the loop of filter_by_type
type_step(st, record, keep_types, remove_types) ==
  LET article_type == get_type_from_record(record)
  IN IF ~Truthy(article_type)
     THEN [st EXCEPT !.filtered_records = Append(@, record),
                     !.no_type = @ + 1]
     ELSE IF InList(article_type, keep_types)
          THEN [st EXCEPT !.filtered_records = Append(@, record),
                          !.kept = CounterInc(@, article_type)]
     ELSE IF InList(article_type, remove_types)
          THEN [st EXCEPT !.removed = CounterInc(@, article_type),
                          !.examples = AddExample(@, article_type,
                                                  example_title(record), 3)]
     ELSE [st EXCEPT !.filtered_records = Append(@, record),
                     !.kept = CounterInc(@, article_type)]

RECURSIVE type_loop(_, _, _, _)
type_loop(st, recs, keep_types, remove_types) ==
  IF recs = <<>> THEN st
  ELSE type_loop(type_step(st, Head(recs), keep_types, remove_types),
                 Tail(recs), keep_types, remove_types)

filter_by_type(recs, keep_types, remove_types) ==
  type_loop([filtered_records |-> <<>>, kept |-> EmptyCounter,
             removed |-> EmptyCounter, no_type |-> 0, examples |-> <<>>],
            recs, keep_types, remove_types)

\* TY values of parsed records: no tag, empty, kept, removed, unknown and
\* lower-case types, and records with two TY lines
TYPE_VALUES ==
  { <<>>, << <<>> >>, <<JOUR>>, <<CHAP>>, <<BOOK>>, << <<"T", "H", "E", "S">> >>,
    << <<"c", "h", "a", "p">> >>, <<JOUR, CHAP>>, <<CHAP, JOUR>> }

\* the lists of the program, and lists that share a type
TYPE_RULES ==
  { [keep_types |-> KEEP_TYPES, remove_types |-> REMOVE_TYPES],
    [keep_types |-> <<JOUR>>, remove_types |-> <<JOUR, CHAP>>],
    [keep_types |-> <<>>, remove_types |-> <<BOOK>>] }

TypeRecord(ty, title) ==
  (IF ty = <<>> THEN <<>> ELSE << [tag |-> TY, values |-> ty] >>)
  \o << [tag |-> TI, values |-> <<title>>] >>

InitType ==
  /\ pc = "collect"
  /\ records = <<>>
  /\ rules \in TYPE_RULES
  /\ ris_text = <<>>
  /\ out_records = <<>>
  /\ stats = "none"

\* records = parse_ris_file(input_file): one more record of the input file
TypeInput(ty, title) ==
  /\ pc = "collect"
  /\ Len(records) < MaxStage
  /\ records' = Append(records, TypeRecord(ty, title))
  /\ UNCHANGED <<pc, rules, ris_text, out_records, stats>>

FilterByType ==
  /\ pc = "collect"
  /\ LET r == filter_by_type(records, rules.keep_types, rules.remove_types)
     IN /\ out_records' = r.filtered_records
        /\ stats' = [kept |-> r.kept, removed |-> r.removed,
                     no_type |-> r.no_type, examples |-> r.examples]
  /\ pc' = "type_done"
  /\ UNCHANGED <<records, rules, ris_text>>

NextType ==
  \/ \E ty \in TYPE_VALUES, title \in { <<"w">>, <<"w", "w">> } : TypeInput(ty, title)
  \/ FilterByType

SpecType == InitType /\ [][NextType]_vars

\* the first value of the type tag, None when there is no type tag
FirstType(record) ==
  IF \E i \in 1..Len(record) : record[i].tag = <<"T", "Y">>
  THEN (CHOOSE e \in {record[i] : i \in 1..Len(record)} : e.tag = <<"T", "Y">>).values[1]
  ELSE None

\* the rule of the claim, its three cases in the order the claim gives them
TypeKept(record, keep_types, remove_types) ==
  LET ty == FirstType(record)
  IN IF ty # None /\ InList(ty, keep_types) THEN TRUE
     ELSE IF ty # None /\ InList(ty, remove_types) THEN FALSE
     ELSE TRUE

\* C10: on the first value of the type tag, a record is kept when the type
\* is in the keep list, rejected when it is in the remove list, and kept when
\* the type tag is absent or the type is in neither list; every rejection is
\* counted under the rejected record's type
C10_TypeFilter ==
  pc = "type_done" =>
    /\ out_records =
         SelectSeq(records,
                   LAMBDA r : TypeKept(r, rules.keep_types, rules.remove_types))
    /\ \A i \in 1..Len(records) :
         ~TypeKept(records[i], rules.keep_types, rules.remove_types) =>
           /\ FirstType(records[i]) \in DOMAIN stats.removed
           /\ stats.removed[FirstType(records[i])] =
                Cardinality({j \in 1..Len(records) :
                               /\ FirstType(records[j]) = FirstType(records[i])
                               /\ ~TypeKept(records[j], rules.keep_types,
                                            rules.remove_types)})

\* the scenario of the spec: a CHAP record under keep [JOUR, CONF] and
\* remove [BOOK, CHAP], next to a record of a type in neither list
C10_Witness ==
  /\ pc = "type_done"
  /\ rules = [keep_types |-> KEEP_TYPES, remove_types |-> REMOVE_TYPES]
  /\ Len(records) = 2
  /\ GetOr(records[1], TY) = << <<"C", "H", "A", "P">> >>
  /\ GetOr(records[2], TY) = << <<"T", "H", "E", "S">> >>
  /\ out_records = << records[2] >>
  /\ stats.removed[ <<"C", "H", "A", "P">> ] = 1

(***************************************************************************)
(* Step7_filter_by_methodology: methodology filter.  A pattern of a table  *)
(* is the set of the words and phrases of the texts of the model in which  *)
(* the regular expression finds a match (case is ignored by the patterns). *)
(***************************************************************************)
METHOD_PATTERNS ==
  << {"bert", "cnn", "lstm"}, {"nlp", "llm", "gpt"}, {"classifier", "model"},
     {"hierarchical", "xmlc"}, {"weak supervision"}, {"rag", "prompt"},
     {"embedding"}, {"ontology", "umls"}, {"heuristic", "rule-based"} >>

EVAL_PATTERNS ==
  << {"f1", "accuracy", "recall", "coding accuracy"}, {"auc"},
     {"top-k", "exact match"}, {"sensitivity"}, {"evaluation", "benchmark"},
     {"test set"}, {"ablation"} >>

NEG_PATTERNS ==
  << {"audit", "coding accuracy"}, {"kappa"}, {"workforce"}, {"billing"},
     {"survey", "qualitative"}, {"guideline"} >>

\* re.search(pattern, text)
Search(pattern, text) == \E i \in 1..Len(text) : text[i] \in pattern

methodology_get_text_content(record) ==
  [title |-> JoinText(record, TI),
   abstract |-> JoinText(record, AB),
   keywords |-> JoinText(record, KW),
   all |-> JoinText(record, TI) \o JoinText(record, AB) \o JoinText(record, KW)]

check_patterns(text, patterns) ==
  SelectSeq(patterns, LAMBDA pattern : Search(pattern, text))

NON_METHODOLOGICAL == "Non-methodological focus (audit/billing/qualitative/guideline)"

STRONG_METHODOLOGY == "Strong methodology signals (method + evaluation)"

METHOD_PRESENT == "Method signals present"

EVAL_PRESENT == "Evaluation signals present"

NO_METHODOLOGY == "No methodology or evaluation signals"

\* should_keep_record of Step7 with the method and evaluation signals
\* tested before the negative signals
methodology_should_keep_positive_first(record) ==
  LET all_text == methodology_get_text_content(record).all
      method_matches == check_patterns(all_text, METHOD_PATTERNS)
      eval_matches == check_patterns(all_text, EVAL_PATTERNS)
      neg_matches == check_patterns(all_text, NEG_PATTERNS)
      details == [method_count |-> Len(method_matches),
                  eval_count |-> Len(eval_matches),
                  neg_count |-> Len(neg_matches)]
  IN IF Len(method_matches) > 0 /\ Len(eval_matches) > 0
     THEN [keep |-> TRUE, reason |-> STRONG_METHODOLOGY, details |-> details]
     ELSE IF Len(method_matches) > 0
          THEN [keep |-> TRUE, reason |-> METHOD_PRESENT, details |-> details]
     ELSE IF Len(eval_matches) > 0
          THEN [keep |-> TRUE, reason |-> EVAL_PRESENT, details |-> details]
     ELSE IF Len(neg_matches) > 0
          THEN [keep |-> FALSE, reason |-> NON_METHODOLOGICAL, details |-> details]
     ELSE [keep |-> FALSE, reason |-> NO_METHODOLOGY, details |-> details]

methodology_should_keep_record(record) ==
  LET all_text == methodology_get_text_content(record).all
      method_matches == check_patterns(all_text, METHOD_PATTERNS)
      eval_matches == check_patterns(all_text, EVAL_PATTERNS)
      neg_matches == check_patterns(all_text, NEG_PATTERNS)
      has_method == Len(method_matches) > 0
      has_eval == Len(eval_matches) > 0
      has_negative == Len(neg_matches) > 0
      details == [method_count |-> Len(method_matches),
                  eval_count |-> Len(eval_matches),
                  neg_count |-> Len(neg_matches)]
  IN IF has_negative
     THEN [keep |-> FALSE, reason |-> NON_METHODOLOGICAL, details |-> details]
     ELSE IF has_method /\ has_eval
          THEN [keep |-> TRUE, reason |-> STRONG_METHODOLOGY, details |-> details]
     ELSE IF has_method
          THEN [keep |-> TRUE, reason |-> METHOD_PRESENT, details |-> details]
     ELSE IF has_eval
          THEN [keep |-> TRUE, reason |-> EVAL_PRESENT, details |-> details]
     ELSE [keep |-> FALSE, reason |-> NO_METHODOLOGY, details |-> details]

\* one iteration of the loop of filter_by_methodology that puts a kept
\* record at the front of the kept list
methodology_step_prepend(st, record) ==
  LET d == methodology_should_keep_record(record)
      title == example_title(record)
  IN IF d.keep
     THEN [st EXCEPT !.filtered_records = <<record>> \o @,
                     !.kept_reasons = CounterInc(@, d.reason),
                     !.examples_kept =
                        AddExample(@, d.reason,
                                   [title |-> title,
                                    method_count |-> d.details.method_count,
                                    eval_count |-> d.details.eval_count], 2)]
     ELSE [st EXCEPT !.removed_reasons = CounterInc(@, d.reason),
                     !.examples_removed =
                        AddExample(@, d.reason,
                                   [title |-> title,
                                    neg_count |-> d.details.neg_count], 2)]

\* one iteration of the loop of filter_by_methodology
methodology_step(st, record) ==
  LET d == methodology_should_keep_record(record)
      title == example_title(record)
  IN IF d.keep
     THEN [st EXCEPT !.filtered_records = Append(@, record),
                     !.kept_reasons = CounterInc(@, d.reason),
                     !.examples_kept =
                        AddExample(@, d.reason,
                                   [title |-> title,
                                    method_count |-> d.details.method_count,
                                    eval_count |-> d.details.eval_count], 2)]
     ELSE [st EXCEPT !.removed_reasons = CounterInc(@, d.reason),
                     !.examples_removed =
                        AddExample(@, d.reason,
                                   [title |-> title,
                                    neg_count |-> d.details.neg_count], 2)]

RECURSIVE methodology_loop(_, _)
methodology_loop(st, recs) ==
  IF recs = <<>> THEN st
  ELSE methodology_loop(methodology_step(st, Head(recs)), Tail(recs))

filter_by_methodology(recs) ==
  methodology_loop([filtered_records |-> <<>>, kept_reasons |-> EmptyCounter,
                    removed_reasons |-> EmptyCounter, examples_kept |-> <<>>,
                    examples_removed |-> <<>>], recs)

(***************************************************************************)
(* Step6_filter_by_content: the loop over the records                      *)
(***************************************************************************)
\* examples list capped at 3 entries
AppendCapped(examples, e, cap) ==
  IF Len(examples) < cap THEN Append(examples, e) ELSE examples

\* one iteration of the loop of filter_by_content that counts every removal
\* under the reason of the first removal
content_step_first_reason(st, record) ==
  LET d == should_keep_record(record)
      e == [title |-> example_title(record), reason |-> d.reason,
            scores |-> d.scores]
      first == IF DOMAIN st.removed_reasons = {} THEN d.reason
               ELSE CHOOSE k \in DOMAIN st.removed_reasons : TRUE
  IN IF d.keep
     THEN [st EXCEPT !.filtered_records = Append(@, record),
                     !.kept_reasons = CounterInc(@, d.reason),
                     !.kept_examples = AppendCapped(@, e, 3)]
     ELSE [st EXCEPT !.removed_reasons = CounterInc(@, first),
                     !.removed_examples = AppendCapped(@, e, 3)]

\* one iteration of the loop of filter_by_content
content_step(st, record) ==
  LET d == should_keep_record(record)
      e == [title |-> example_title(record), reason |-> d.reason,
            scores |-> d.scores]
  IN IF d.keep
     THEN [st EXCEPT !.filtered_records = Append(@, record),
                     !.kept_reasons = CounterInc(@, d.reason),
                     !.kept_examples = AppendCapped(@, e, 3)]
     ELSE [st EXCEPT !.removed_reasons = CounterInc(@, d.reason),
                     !.removed_examples = AppendCapped(@, e, 3)]

RECURSIVE content_loop(_, _)
content_loop(st, recs) ==
  IF recs = <<>> THEN st
  ELSE content_loop(content_step(st, Head(recs)), Tail(recs))

filter_by_content(recs) ==
  content_loop([filtered_records |-> <<>>, kept_reasons |-> EmptyCounter,
                removed_reasons |-> EmptyCounter, kept_examples |-> <<>>,
                removed_examples |-> <<>>], recs)

(***************************************************************************)
(* Step9_select_representatives: tagging, bucketing and selection          *)
(***************************************************************************)
TOP_N_PER_BUCKET == 3

LONG_TEXT_CHARS == 600

PY == <<"P", "Y">>

DA == <<"D", "A">>

PHASE_RULES ==
  << [label |-> "LLM_RAG_XAI", rx |-> {"llm", "gpt", "prompt", "rag"}],
     [label |-> "TRANSFORMER", rx |-> {"bert", "transformer"}],
     [label |-> "DEEP_CNN_RNN", rx |-> {"cnn", "lstm"}],
     [label |-> "CLASSICAL_ML", rx |-> {"svm"}],
     [label |-> "RULE_BASED", rx |-> {"heuristic", "rule-based"}] >>

CHALLENGE_RULES ==
  << [label |-> "HIERARCHY", rx |-> {"hierarchical", "taxonomy"}],
     [label |-> "RARE_LABELS", rx |-> {"few-shot"}],
     [label |-> "LONG_TEXT", rx |-> {"chunking"}],
     [label |-> "EXTREME_MULTILABEL", rx |-> {"xmlc"}],
     [label |-> "COOCCURRENCE_RULES", rx |-> {"combination rules"}],
     [label |-> "MAPPING_INTEROP", rx |-> {"mapping", "icd-10"}],
     [label |-> "KNOWLEDGE_AUG", rx |-> {"ontology", "umls"}],
     [label |-> "EXPLAINABILITY", rx |-> {"shap"}] >>

DATASET_RULES ==
  << [label |-> "MIMIC", rx |-> {"mimic"}],
     [label |-> "EICU", rx |-> {"eicu"}],
     [label |-> "UCSF", rx |-> {"ucsf"}],
     [label |-> "CLAIMS", rx |-> {"claims data"}] >>

METRIC_PAT ==
  {"f1", "accuracy", "recall", "coding accuracy", "auc", "top-k", "exact match"}

NOVELTY_PAT == {"novel", "we propose"}

CODING_TASK_PAT == {"icd coding", "clinical coding"}

ICD_PAT == {"icd", "icd coding", "icd-10"}

\* the number of characters of the words and phrases of the texts of the
\* model; "lorem" is a passage of 600 characters in which no pattern matches
WordLen(w) ==
  CASE w = "lorem" -> 600
    [] w \in {"icd coding"} -> 10
    [] w \in {"icd-10"} -> 6
    [] w \in {"audit", "novel"} -> 5
    [] w \in {"bert", "pos1", "pos2", "neg1", "neg2"} -> 4
    [] w \in {"hierarchical"} -> 12
    [] w \in {"icd", "llm", "svm"} -> 3
    [] w \in {"f1"} -> 2
    [] w \in {"w"} -> 1

\* len(text) of a text of words separated by single spaces
RECURSIVE TextLen(_)
TextLen(text) ==
  IF text = <<>> THEN 0
  ELSE IF Len(text) = 1 THEN WordLen(text[1])
  ELSE WordLen(Head(text)) + 1 + TextLen(Tail(text))

DIGITS == <<"0", "1", "2", "3", "4", "5", "6", "7", "8", "9">>

IsDigit(c) == \E d \in 1..10 : DIGITS[d] = c

\* re.search(r'\d{4}', s): the first four consecutive digits, None without
SearchYear(s) ==
  LET at == {i \in 1..Len(s) - 3 : \A k \in 0..3 : IsDigit(s[i + k])}
  IN IF at = {} THEN None
     ELSE LET i == CHOOSE x \in at : \A y \in at : x <= y
          IN SubSeq(s, i, i + 3)

\* int(year) of a string of digits
RECURSIVE ToInt(_)
ToInt(s) ==
  IF s = <<>> THEN 0
  ELSE 10 * ToInt(SubSeq(s, 1, Len(s) - 1))
       + (CHOOSE d \in 1..10 : DIGITS[d] = s[Len(s)]) - 1

year_bucket(y) ==
  IF y = <<>> THEN "UNKNOWN"
  ELSE LET yi == ToInt(y)
       IN IF yi <= 2011 THEN "pre2012"
          ELSE IF yi <= 2016 THEN "2012_2016"
          ELSE IF yi <= 2019 THEN "2017_2019"
          ELSE IF yi <= 2022 THEN "2020_2022"
          ELSE "2023_plus"

\* f"{title} {abstract} {keywords}" after re.sub(r"\s+", " ", text).strip()
select_get_text_content(record) ==
  JoinText(record, TI) \o JoinText(record, AB) \o JoinText(record, KW)

get_year(record) ==
  IF HasTag(record, PY) /\ Get(record, PY) # <<>>
     /\ SearchYear(Get(record, PY)[1]) # None
  THEN SearchYear(Get(record, PY)[1])
  ELSE IF HasTag(record, DA) /\ Get(record, DA) # <<>>
          /\ SearchYear(Get(record, DA)[1]) # None
       THEN SearchYear(Get(record, DA)[1])
  ELSE <<>>

RECURSIVE FirstLabel(_, _, _)
FirstLabel(rule_list, text, default) ==
  IF rule_list = <<>> THEN default
  ELSE IF Search(Head(rule_list).rx, text) THEN Head(rule_list).label
  ELSE FirstLabel(Tail(rule_list), text, default)

\* the label of the last rule of the list whose pattern matches
RECURSIVE LastLabel(_, _, _)
LastLabel(rule_list, text, default) ==
  IF rule_list = <<>> THEN default
  ELSE IF Search(rule_list[Len(rule_list)].rx, text)
       THEN rule_list[Len(rule_list)].label
  ELSE LastLabel(SubSeq(rule_list, 1, Len(rule_list) - 1), text, default)

\* tag_phase with the rules tried from the end of the list
tag_phase_last_rule(text) == LastLabel(PHASE_RULES, text, "UNSPECIFIED")

tag_phase(text) == FirstLabel(PHASE_RULES, text, "UNSPECIFIED")

tag_challenges(text) ==
  LET tags == SelectSeq(CHALLENGE_RULES, LAMBDA r : Search(r.rx, text))
  IN IF tags = <<>> THEN <<"GENERAL">>
     ELSE [i \in 1..Len(tags) |-> tags[i].label]

tag_dataset(text) == FirstLabel(DATASET_RULES, text, "UNKNOWN")

score_record(text) ==
  (IF Search(METRIC_PAT, text) THEN 3 ELSE 0)
  + (IF Search(NOVELTY_PAT, text) THEN 2 ELSE 0)
  + (IF Search(CODING_TASK_PAT, text) THEN 2 ELSE 0)
  + (IF TextLen(text) > LONG_TEXT_CHARS THEN 1 ELSE 0)

\* get_title_from_record of Step9: the first title, not cut
select_get_title_from_record(record) ==
  IF HasTag(record, TI) /\ Get(record, TI) # <<>> THEN Get(record, TI)[1]
  ELSE UNKNOWN_TITLE

\* len(row['title'])
TitleLen(title) == IF title = UNKNOWN_TITLE THEN Len(title) ELSE TextLen(title)

\* next((c for c in challenges if c != "GENERAL"), "GENERAL")
primary_challenge_of(challenges) ==
  LET named == SelectSeq(challenges, LAMBDA c : c # "GENERAL")
  IN IF named = <<>> THEN "GENERAL" ELSE named[1]

\* bucketed[bucket_key].append(item) on a dict in insertion order
AddToBucket(bucketed, key, item) ==
  IF \E b \in 1..Len(bucketed) : bucketed[b].key = key
  THEN [b \in 1..Len(bucketed) |->
          IF bucketed[b].key = key
          THEN [bucketed[b] EXCEPT !.items = Append(@, item)]
          ELSE bucketed[b]]
  ELSE Append(bucketed, [key |-> key, items |-> <<item>>])

\* one iteration of the tagging loop of select_representatives; i is the
\* position of the record in the input, from 1
tag_step(st, record, i) ==
  LET text_norm == select_get_text_content(record)
  IN IF ~Search(ICD_PAT, text_norm)
     THEN [st EXCEPT !.skipped = @ + 1]
     ELSE LET phase == tag_phase(text_norm)
              challenges == tag_challenges(text_norm)
              ds == tag_dataset(text_norm)
              year == get_year(record)
              score == score_record(text_norm)
              primary_challenge == primary_challenge_of(challenges)
              bucket_key == <<phase, primary_challenge>>
              row == [id |-> i, year |-> year, year_bucket |-> year_bucket(year),
                      title |-> select_get_title_from_record(record),
                      phase |-> phase, primary_challenge |-> primary_challenge,
                      all_challenges |-> challenges, dataset_tag |-> ds,
                      score |-> score]
              year_int == ToInt(year)
          IN [st EXCEPT !.tagged_rows = Append(@, row),
                        !.bucketed = AddToBucket(@, bucket_key,
                                        [score |-> score, year_int |-> year_int,
                                         record |-> record, row |-> row])]

RECURSIVE tag_loop(_, _, _)
tag_loop(st, recs, i) ==
  IF i > Len(recs) THEN st
  ELSE tag_loop(tag_step(st, recs[i], i), recs, i + 1)

\* the sort key without the length of the title
KeyGreater_no_title(a, b) ==
  \/ a.score > b.score
  \/ a.score = b.score /\ a.year_int > b.year_int

\* the sort key (x[0], x[1], len(x[3].get('title', ''))) compared as tuples
KeyGreater(a, b) ==
  \/ a.score > b.score
  \/ a.score = b.score /\ a.year_int > b.year_int
  \/ a.score = b.score /\ a.year_int = b.year_int
     /\ TitleLen(a.row.title) > TitleLen(b.row.title)

\* sorted(items, key=..., reverse=True): stable, equal keys keep their order
RECURSIVE InsertSorted(_, _)
InsertSorted(sorted, x) ==
  IF sorted = <<>> THEN <<x>>
  ELSE IF KeyGreater(x, Head(sorted)) THEN <<x>> \o sorted
  ELSE <<Head(sorted)>> \o InsertSorted(Tail(sorted), x)

RECURSIVE SortItems(_)
SortItems(items) ==
  IF items = <<>> THEN <<>>
  ELSE InsertSorted(SortItems(SubSeq(items, 1, Len(items) - 1)), items[Len(items)])

\* picked = items_sorted[:TOP_N_PER_BUCKET]
pick_bucket(items) ==
  SubSeq(SortItems(items), 1, Min(TOP_N_PER_BUCKET, Len(items)))

RECURSIVE select_loop(_)
select_loop(bucketed) ==
  IF bucketed = <<>> THEN <<>>
  ELSE LET picked == pick_bucket(Head(bucketed).items)
       IN [k \in 1..Len(picked) |->
             [bkey |-> Head(bucketed).key, score |-> picked[k].score,
              year_int |-> picked[k].year_int, rec |-> picked[k].record,
              row |-> picked[k].row]]
          \o select_loop(Tail(bucketed))

\* select_representatives from the parsed records on; TOTAL_CAP is None in
\* the program, so the cap on the total is never applied
select_representatives(recs) ==
  LET st == tag_loop([tagged_rows |-> <<>>, bucketed |-> <<>>, skipped |-> 0],
                     recs, 1)
      selected == select_loop(st.bucketed)
  IN [tagged_rows |-> st.tagged_rows, skipped |-> st.skipped,
      bucketed |-> st.bucketed, selected |-> selected,
      selected_records |-> [k \in 1..Len(selected) |-> selected[k].rec],
      selected_rows |-> [k \in 1..Len(selected) |-> selected[k].row]]

(***************************************************************************)
(* The stages of the classification pipeline, each run on one input list   *)
(***************************************************************************)
\* largest number of records in the input list of a stage
MaxInput == 4

\* a journal article every stage keeps
RECORD_KEPT ==
  << [tag |-> TY, values |-> << <<"J", "O", "U", "R">> >>],
     [tag |-> JO, values |-> << <<"S", "e", "n", "s", "o", "r", "s">> >>],
     [tag |-> TI, values |-> << <<"icd coding", "bert">> >>],
     [tag |-> AB, values |-> << <<"f1", "pos1", "pos2", "pos1">> >>],
     [tag |-> PY, values |-> << <<"2", "0", "2", "0">> >>] >>

\* a book chapter every stage rejects or skips
RECORD_REJECTED ==
  << [tag |-> TY, values |-> << <<"C", "H", "A", "P">> >>],
     [tag |-> JO, values |-> << <<"N", "a", "t", "u", "r", "e">> >>],
     [tag |-> TI, values |-> << <<"audit">> >>],
     [tag |-> AB, values |-> << <<"neg1", "neg2", "neg1">> >>] >>

\* a record with a title only: no journal, no type, no year, no signal
RECORD_BARE ==
  << [tag |-> TI, values |-> << <<"icd", "w">> >>] >>

\* an article with weak signals and a long abstract, in the bucket of RECORD_KEPT
RECORD_WEAK ==
  << [tag |-> TY, values |-> << <<"J", "O", "U", "R">> >>],
     [tag |-> JO, values |-> << <<"I", "E", "E", "E", " ", "A", "c", "c", "e", "s", "s">> >>],
     [tag |-> TI, values |-> << <<"icd", "bert", "novel">> >>],
     [tag |-> AB, values |-> << <<"pos1", "lorem">> >>],
     [tag |-> PY, values |-> << <<"2", "0", "2", "1", "/", "0", "3">> >>] >>

\* a book on a mapping challenge with a date and no year
RECORD_BOOK ==
  << [tag |-> TY, values |-> << <<"B", "O", "O", "K">> >>],
     [tag |-> JO, values |-> << <<"N", "a", "t", "u", "r", "e">> >>],
     [tag |-> TI, values |-> << <<"bert", "icd-10">> >>],
     [tag |-> AB, values |-> << <<"llm", "neg1">> >>],
     [tag |-> DA, values |-> << <<"2", "0", "1", "9">> >>] >>


FILTER_RECORDS ==
  {RECORD_KEPT, RECORD_REJECTED, RECORD_BARE, RECORD_WEAK, RECORD_BOOK}

STAGES == {"journal", "type", "content", "methodology", "select"}

InitFilter ==
  /\ pc = "collect"
  /\ records = <<>>
  /\ rules \in STAGES
  /\ ris_text = <<>>
  /\ out_records = <<>>
  /\ stats = "none"

\* records = parse_ris_file(input_file): one more record of the input file
FilterInput(record) ==
  /\ pc = "collect"
  /\ Len(records) < MaxInput
  /\ records' = Append(records, record)
  /\ UNCHANGED <<pc, rules, ris_text, out_records, stats>>

StageJournal ==
  /\ pc = "collect"
  /\ rules = "journal"
  /\ LET r == filter_by_journal(records, TARGET_JOURNALS)
     IN /\ out_records' = r.filtered_records
        /\ stats' = [matched |-> r.matched, unmatched |-> r.unmatched,
                     no_journal |-> r.no_journal]
  /\ pc' = "filtered"
  /\ UNCHANGED <<records, rules, ris_text>>

StageType ==
  /\ pc = "collect"
  /\ rules = "type"
  /\ LET r == filter_by_type(records, KEEP_TYPES, REMOVE_TYPES)
     IN /\ out_records' = r.filtered_records
        /\ stats' = [kept |-> r.kept, removed |-> r.removed,
                     no_type |-> r.no_type, examples |-> r.examples]
  /\ pc' = "filtered"
  /\ UNCHANGED <<records, rules, ris_text>>

StageContent ==
  /\ pc = "collect"
  /\ rules = "content"
  /\ LET r == filter_by_content(records)
     IN /\ out_records' = r.filtered_records
        /\ stats' = [kept_reasons |-> r.kept_reasons,
                     removed_reasons |-> r.removed_reasons,
                     kept_examples |-> r.kept_examples,
                     removed_examples |-> r.removed_examples]
  /\ pc' = "filtered"
  /\ UNCHANGED <<records, rules, ris_text>>

StageMethodology ==
  /\ pc = "collect"
  /\ rules = "methodology"
  /\ LET r == filter_by_methodology(records)
     IN /\ out_records' = r.filtered_records
        /\ stats' = [kept_reasons |-> r.kept_reasons,
                     removed_reasons |-> r.removed_reasons,
                     examples_kept |-> r.examples_kept,
                     examples_removed |-> r.examples_removed]
  /\ pc' = "filtered"
  /\ UNCHANGED <<records, rules, ris_text>>

StageSelect ==
  /\ pc = "collect"
  /\ rules = "select"
  /\ LET r == select_representatives(records)
     IN /\ out_records' = r.selected_records
        /\ stats' = [tagged_rows |-> r.tagged_rows, skipped |-> r.skipped,
                     selected_rows |-> r.selected_rows]
  /\ pc' = "filtered"
  /\ UNCHANGED <<records, rules, ris_text>>

NextFilter ==
  \/ \E record \in FILTER_RECORDS : FilterInput(record)
  \/ StageJournal
  \/ StageType
  \/ StageContent
  \/ StageMethodology
  \/ StageSelect

SpecFilter == InitFilter /\ [][NextFilter]_vars

FILTER_STAGES == {"journal", "type", "content", "methodology"}

\* whether a filter stage keeps a record, decided on the record alone
StageKeeps(stage, record) ==
  CASE stage = "journal" -> AllowListed(record, TARGET_JOURNALS)
    [] stage = "type" -> TypeKept(record, KEEP_TYPES, REMOVE_TYPES)
    [] stage = "content" -> should_keep_record(record).keep
    [] stage = "methodology" -> methodology_should_keep_record(record).keep

\* the key under which a filter stage counts the rejection of a record
RejectReason(stage, record) ==
  CASE stage = "journal" -> get_journal_from_record(record)
    [] stage = "type" -> FirstType(record)
    [] stage = "content" -> should_keep_record(record).reason
    [] stage = "methodology" -> methodology_should_keep_record(record).reason

\* the counter of removals of a filter stage
RemovalCounter(stage) ==
  CASE stage = "journal" -> stats.unmatched
    [] stage = "type" -> stats.removed
    [] stage = "content" -> stats.removed_reasons
    [] stage = "methodology" -> stats.removed_reasons

\* the number of records a stage reports as rejected
RejectedCount(stage) ==
  CASE stage = "journal" -> CounterTotal(stats.unmatched) + stats.no_journal
    [] stage \in {"type", "content", "methodology"} ->
         CounterTotal(RemovalCounter(stage))
    [] stage = "select" -> stats.skipped

BucketOf(record) ==
  LET text == select_get_text_content(record)
  IN <<tag_phase(text), primary_challenge_of(tag_challenges(text))>>

MentionsICD(record) == Search(ICD_PAT, select_get_text_content(record))

RECURSIVE IsSubsequence(_, _)
IsSubsequence(a, b) ==
  IF a = <<>> THEN TRUE
  ELSE IF b = <<>> THEN FALSE
  ELSE IF Head(a) = Head(b) THEN IsSubsequence(Tail(a), Tail(b))
  ELSE IsSubsequence(a, Tail(b))

RejectedOutput(stage) ==
  CASE stage = "journal" -> {}
    [] stage = "type" ->
         UNION {{[title |-> stats.examples[k][n], reason |-> k] :
                   n \in 1..Len(stats.examples[k])} : k \in DOMAIN stats.examples}
    [] stage = "content" ->
         {[title |-> stats.removed_examples[n].title,
           reason |-> stats.removed_examples[n].reason] :
            n \in 1..Len(stats.removed_examples)}
    [] stage = "methodology" ->
         UNION {{[title |-> stats.examples_removed[k][n].title, reason |-> k] :
                   n \in 1..Len(stats.examples_removed[k])} :
                k \in DOMAIN stats.examples_removed}

RejectedLike(i) ==
  {j \in 1..Len(records) :
     /\ ~StageKeeps(rules, records[j])
     /\ RejectReason(rules, records[j]) = RejectReason(rules, records[i])}

TAXONOMY ==
  << [dimension |-> "ML_Method",
      categories |->
        << [category |-> "Traditional_ML", patterns |-> << <<{"svm"}>> >>],
           [category |-> "RNN_LSTM",
            patterns |-> << <<{"lstm", "bi-lstm"}>>, <<{"bi-lstm"}>> >>],
           [category |-> "CNN", patterns |-> << <<{"cnn"}>> >>],
           [category |-> "BERT_Transformers",
            patterns |-> << <<{"bert"}>>, <<{"transformer"}>> >>],
           [category |-> "LLM", patterns |-> << <<{"llm"}>>, <<{"gpt"}>> >>],
           [category |-> "Rule_Based", patterns |-> << <<{"heuristic"}>> >>] >>],
     [dimension |-> "ICD_Version",
      categories |->
        << [category |-> "ICD-9", patterns |-> << <<{"icd-9"}>> >>],
           [category |-> "ICD-10", patterns |-> << <<{"icd-10"}>> >>],
           [category |-> "ICD-11", patterns |-> << <<{"icd-11"}>> >>],
           [category |-> "Multiple_Versions",
            patterns |-> << <<{"icd-9"}, {"icd-10"}>>, <<{"icd-10"}, {"icd-9"}>>,
                            <<{"mapping"}>> >>] >>],
     [dimension |-> "Task_Type",
      categories |->
        << [category |-> "Hierarchical", patterns |-> << <<{"hierarchical"}>> >>],
           [category |-> "Few_shot", patterns |-> << <<{"few-shot"}>> >>] >>],
     [dimension |-> "Evaluation_Metric",
      categories |->
        << [category |-> "F1_Score", patterns |-> << <<{"f1"}>> >>],
           [category |-> "Accuracy", patterns |-> << <<{"accuracy"}>> >>] >>] >>

UNCLASSIFIED == "Unclassified"

\* str.lower on a word of the texts of the model
LowerWord(w) ==
  CASE w = "BERT" -> "bert"
    [] w = "LSTM" -> "lstm"
    [] OTHER -> w

\* re.search(pattern, text, re.IGNORECASE) from position i of the text on
RECURSIVE PatternSearchFrom(_, _, _)
PatternSearchFrom(pattern, text, i) ==
  IF pattern = <<>> THEN TRUE
  ELSE \E j \in i..Len(text) :
         /\ LowerWord(text[j]) \in Head(pattern)
         /\ PatternSearchFrom(Tail(pattern), text, j + 1)

PatternSearch(pattern, text) == PatternSearchFrom(pattern, text, 1)

\* pd.notna(row.get(field))
NotNa(row, field) == row[field] # None

combine_text_fields(row) ==
  (IF NotNa(row, "Title")
   THEN [i \in 1..Len(row.Title) |-> LowerWord(row.Title[i])] ELSE <<>>)
  \o (IF NotNa(row, "Abstract")
      THEN [i \in 1..Len(row.Abstract) |-> LowerWord(row.Abstract[i])] ELSE <<>>)
  \o (IF NotNa(row, "Keywords")
      THEN [i \in 1..Len(row.Keywords) |-> LowerWord(row.Keywords[i])] ELSE <<>>)

\* the loop over the categories of a dimension that appends a category once
\* for each of its patterns that matches
RECURSIVE category_matches_every_pattern(_, _)
category_matches_every_pattern(categories, text) ==
  IF categories = <<>> THEN <<>>
  ELSE LET hits == SelectSeq(Head(categories).patterns,
                             LAMBDA pattern : PatternSearch(pattern, text))
       IN [k \in 1..Len(hits) |-> Head(categories).category]
          \o category_matches_every_pattern(Tail(categories), text)

\* the loop over the categories of a dimension: the category is appended at
\* its first matching pattern, then the loop over its patterns breaks
RECURSIVE category_matches(_, _)
category_matches(categories, text) ==
  IF categories = <<>> THEN <<>>
  ELSE (IF \E k \in 1..Len(Head(categories).patterns) :
             PatternSearch(Head(categories).patterns[k], text)
        THEN <<Head(categories).category>> ELSE <<>>)
       \o category_matches(Tail(categories), text)

\* classification, a dict in the order of TAXONOMY: dimension -> list
classify_paper(row) ==
  LET text == combine_text_fields(row)
  IN [d \in 1..Len(TAXONOMY) |->
        LET matches == category_matches(TAXONOMY[d].categories, text)
        IN [dimension |-> TAXONOMY[d].dimension,
            tags |-> IF matches # <<>> THEN matches ELSE <<UNCLASSIFIED>>]]

\* largest number of words in the title, and in the abstract, of a row
MaxWords == 2

TAXONOMY_WORDS == {"BERT", "LSTM", "bi-lstm", "icd-9", "icd-10", "w"}

WordSeqs(n) == UNION {[1..k -> TAXONOMY_WORDS] : k \in 0..n}

InitTaxonomy ==
  /\ pc = "row"
  /\ \E title \in WordSeqs(MaxWords) \cup {None},
        abstract \in WordSeqs(MaxWords) \cup {None} :
       records = << [Title |-> title, Abstract |-> abstract, Keywords |-> None] >>
  /\ rules = "none"
  /\ ris_text = <<>>
  /\ out_records = <<>>
  /\ stats = "none"

\* classifications = df.apply(classify_paper, axis=1), one row
ClassifyPaper ==
  /\ pc = "row"
  /\ out_records' = classify_paper(records[1])
  /\ pc' = "classified"
  /\ UNCHANGED <<records, rules, ris_text, stats>>

NextTaxonomy == ClassifyPaper

SpecTaxonomy == InitTaxonomy /\ [][NextTaxonomy]_vars

\* the words of the title and the abstract of a row, in text order
RowWords(row) ==
  (IF row.Title = None THEN <<>> ELSE row.Title)
  \o (IF row.Abstract = None THEN <<>> ELSE row.Abstract)

\* the categories of dimension d with a pattern matching the row
Matching(d, row) ==
  {TAXONOMY[d].categories[c].category : c \in
     {c \in 1..Len(TAXONOMY[d].categories) :
        \E k \in 1..Len(TAXONOMY[d].categories[c].patterns) :
          PatternSearch(TAXONOMY[d].categories[c].patterns[k], RowWords(row))}}

\* C11: for every dimension the tags hold every category with a matching
\* pattern exactly once and no other category, they are exactly
\* <<"Unclassified">> iff no category matches, and they are never empty
C11_TaxonomyTags ==
  pc = "classified" =>
    \A d \in 1..Len(TAXONOMY) :
      LET tags == out_records[d].tags
          m == Matching(d, records[1])
      IN /\ tags # <<>>
         /\ \A c \in m : Cardinality({i \in 1..Len(tags) : tags[i] = c}) = 1
         /\ (m # {} => \A i \in 1..Len(tags) : tags[i] \in m)
         /\ (tags = <<UNCLASSIFIED>>) <=> (m = {})

\* the scenario of the spec, with a word two patterns of RNN_LSTM match: the
\* abstract mentions BERT and bi-LSTM, ML_Method holds both categories once
C11_Witness ==
  /\ pc = "classified"
  /\ records[1].Abstract = <<"BERT", "bi-lstm">>
  /\ out_records[1].dimension = "ML_Method"
  /\ out_records[1].tags = <<"RNN_LSTM", "BERT_Transformers">>
  /\ out_records[2].tags = <<UNCLASSIFIED>>

(***************************************************************************)
(* Step9_select_representatives on the records of one input directory      *)
(***************************************************************************)
\* largest number of records in the input of select_representatives
MaxPapers == 4

\* a transformer paper of 2020 with score 0
PAPER_SHORT ==
  << [tag |-> TI, values |-> << <<"icd", "bert">> >>],
     [tag |-> PY, values |-> << <<"2", "0", "2", "0">> >>] >>

\* the same bucket, score and year with a longer title
PAPER_LONG ==
  << [tag |-> TI, values |-> << <<"icd", "bert", "w">> >>],
     [tag |-> PY, values |-> << <<"2", "0", "2", "0">> >>] >>

\* the same bucket, older, with a metric
PAPER_METRIC ==
  << [tag |-> TI, values |-> << <<"icd", "bert">> >>],
     [tag |-> AB, values |-> << <<"f1">> >>],
     [tag |-> PY, values |-> << <<"2", "0", "1", "9">> >>] >>

\* the same bucket, score 0, newer
PAPER_NEW ==
  << [tag |-> TI, values |-> << <<"icd", "bert">> >>],
     [tag |-> PY, values |-> << <<"2", "0", "2", "1">> >>] >>

\* a paper with a transformer and an LLM signal and no year
PAPER_LLM ==
  << [tag |-> TI, values |-> << <<"icd", "bert", "llm">> >>] >>

\* a classical paper with two challenges
PAPER_CHALLENGES ==
  << [tag |-> TI, values |-> << <<"icd-10", "svm">> >>],
     [tag |-> AB, values |-> << <<"hierarchical">> >>],
     [tag |-> DA, values |-> << <<"2", "0", "1", "9">> >>] >>

\* a paper that does not mention ICD
PAPER_OFF_TOPIC ==
  << [tag |-> TI, values |-> << <<"bert", "w">> >>],
     [tag |-> PY, values |-> << <<"2", "0", "2", "0">> >>] >>


PAPERS ==
  {PAPER_SHORT, PAPER_LONG, PAPER_METRIC, PAPER_NEW, PAPER_LLM,
   PAPER_CHALLENGES, PAPER_OFF_TOPIC}

InitSelect ==
  /\ pc = "collect"
  /\ records = <<>>
  /\ rules = "select"
  /\ ris_text = <<>>
  /\ out_records = <<>>
  /\ stats = "none"

\* records.extend(parse_ris_file(ris_file)): one more record
SelectInput(record) ==
  /\ pc = "collect"
  /\ Len(records) < MaxPapers
  /\ records' = Append(records, record)
  /\ UNCHANGED <<pc, rules, ris_text, out_records, stats>>

SelectRepresentatives ==
  /\ pc = "collect"
  /\ LET r == select_representatives(records)
     IN /\ out_records' = r.selected_records
        /\ stats' = [tagged_rows |-> r.tagged_rows, skipped |-> r.skipped,
                     selected_rows |-> r.selected_rows]
  /\ pc' = "selected"
  /\ UNCHANGED <<records, rules, ris_text>>

NextSelect ==
  \/ \E record \in PAPERS : SelectInput(record)
  \/ SelectRepresentatives

SpecSelect == InitSelect /\ [][NextSelect]_vars

\* the sort key of input record i: score, year (0 without), title length
PaperKey(i) ==
  LET r == records[i]
  IN << score_record(select_get_text_content(r)), ToInt(get_year(r)),
        TitleLen(select_get_title_from_record(r)) >>

\* lexicographic order of the keys
KeyBefore(a, b) ==
  \/ a[1] > b[1]
  \/ a[1] = b[1] /\ a[2] > b[2]
  \/ a[1] = b[1] /\ a[2] = b[2] /\ a[3] > b[3]

\* the positions in the input of the records of the bucket of record i
BucketMembers(i) ==
  {j \in 1..Len(records) :
     MentionsICD(records[j]) /\ BucketOf(records[j]) = BucketOf(records[i])}

\* the selected rows of the bucket of record i, in the order of selection
SelectedOf(i) ==
  SelectSeq(stats.selected_rows,
            LAMBDA row : <<row.phase, row.primary_challenge>> = BucketOf(records[i]))

\* C12: of each bucket min(TOP_N_PER_BUCKET, size) different records are
\* selected, in the order score descending, then year descending, then title
\* length descending, and no unselected record of the bucket has a strictly
\* greater key than a selected one
C12_TopOfBucket ==
  pc = "selected" =>
    \A i \in 1..Len(records) :
      MentionsICD(records[i]) =>
        LET sel == SelectedOf(i)
            ids == {sel[k].id : k \in 1..Len(sel)}
        IN /\ Len(sel) = Min(TOP_N_PER_BUCKET, Cardinality(BucketMembers(i)))
           /\ Cardinality(ids) = Len(sel)
           /\ ids \subseteq BucketMembers(i)
           /\ \A k \in 1..Len(sel) - 1 :
                ~KeyBefore(PaperKey(sel[k + 1].id), PaperKey(sel[k].id))
           /\ \A u \in BucketMembers(i) \ ids, k \in 1..Len(sel) :
                ~KeyBefore(PaperKey(u), PaperKey(sel[k].id))

\* four records of one bucket, two of them tying on score and year: the one
\* with the longer title is selected before the other, the oldest with the
\* metric first, and the fourth is not selected
C12_Witness ==
  /\ pc = "selected"
  /\ records = <<PAPER_SHORT, PAPER_SHORT, PAPER_LONG, PAPER_METRIC>>
  /\ out_records = <<PAPER_METRIC, PAPER_LONG, PAPER_SHORT>>

(***************************************************************************)
(* Step7_filter_by_methodology: the decision on one record                 *)
(***************************************************************************)
METHODOLOGY_WORDS == {"bert", "f1", "audit", "coding accuracy", "w"}

MethodologySeqs(n) == UNION {[1..k -> METHODOLOGY_WORDS] : k \in 0..n}

InitMethodology ==
  /\ pc = "record"
  /\ \E title \in MethodologySeqs(MaxWords), abstract \in MethodologySeqs(MaxWords) :
       records = << TextRecord(title, abstract) >>
  /\ rules = "none"
  /\ ris_text = <<>>
  /\ out_records = <<>>
  /\ stats = "none"

\* keep, reason, details = should_keep_record(record)
MethodologyDecide ==
  /\ pc = "record"
  /\ stats' = methodology_should_keep_record(records[1])
  /\ out_records' = IF methodology_should_keep_record(records[1]).keep
                    THEN records ELSE <<>>
  /\ pc' = "decided"
  /\ UNCHANGED <<records, rules, ris_text>>

NextMethodology == MethodologyDecide

SpecMethodology == InitMethodology /\ [][NextMethodology]_vars

\* the words of the title and the abstract of a record
WordsOf(record) ==
  {Concat(GetOr(record, TI))[i] : i \in 1..Len(Concat(GetOr(record, TI)))}
  \cup {Concat(GetOr(record, AB))[i] : i \in 1..Len(Concat(GetOr(record, AB)))}

\* a word of the record matches a pattern of the table
HasSignal(record, patterns) ==
  WordsOf(record) \cap UNION {patterns[k] : k \in 1..Len(patterns)} # {}

\* C13: a record with a deny signal is rejected whatever its method and
\* evaluation signals; a record without deny signal is kept iff it has a
\* method signal or an evaluation signal
C13_MethodologyDecision ==
  pc = "decided" =>
    /\ HasSignal(records[1], NEG_PATTERNS) => ~stats.keep
    /\ ~HasSignal(records[1], NEG_PATTERNS) =>
         (stats.keep <=> (\/ HasSignal(records[1], METHOD_PATTERNS)
                          \/ HasSignal(records[1], EVAL_PATTERNS)))
    /\ out_records = IF stats.keep THEN records ELSE <<>>

\* a record with a method, an evaluation and a deny signal is rejected
C13_Witness ==
  /\ pc = "decided"
  /\ HasSignal(records[1], NEG_PATTERNS)
  /\ stats.details.method_count > 0
  /\ stats.details.eval_count > 0
  /\ ~stats.keep
  /\ stats.reason = NON_METHODOLOGICAL

(***************************************************************************)
(* Step8_tag_papers: apply_tags; its rule tables are those of Step9        *)
(***************************************************************************)
\* f"{title} {abstract} {keywords}".lower() as words
tag_get_text_content(record) ==
  LET words == JoinText(record, TI) \o JoinText(record, AB) \o JoinText(record, KW)
  IN [i \in 1..Len(words) |-> LowerWord(words[i])]

\* the labels of all the rules of a table whose pattern matches
AllLabels(rule_list, text) ==
  LET hits == SelectSeq(rule_list, LAMBDA r : Search(r.rx, text))
  IN [i \in 1..Len(hits) |-> hits[i].label]

apply_tags(record) ==
  LET text == tag_get_text_content(record)
      year == get_year(record)
      abstract == JoinText(record, AB)
  IN [year |-> year,
      year_bucket |-> year_bucket(year),
      phases |-> AllLabels(PHASE_RULES, text),
      challenges |-> AllLabels(CHALLENGE_RULES, text),
      datasets |-> AllLabels(DATASET_RULES, text),
      has_metrics |-> Search(METRIC_PAT, text),
      has_novelty |-> Search(NOVELTY_PAT, text),
      has_coding_task |-> abstract # <<>> /\ Search(CODING_TASK_PAT, text)]

PHASE_WORDS == {"llm", "bert", "svm", "hierarchical", "icd-10", "w"}

PhaseSeqs(n) == UNION {[1..k -> PHASE_WORDS] : k \in 0..n}

InitPhase ==
  /\ pc = "record"
  /\ \E title \in PhaseSeqs(MaxWords), abstract \in PhaseSeqs(MaxWords) :
       records = << TextRecord(title, abstract) >>
  /\ rules = "none"
  /\ ris_text = <<>>
  /\ out_records = <<>>
  /\ stats = "none"

\* tags = apply_tags(record) in tag_file of Step8
ApplyTags ==
  /\ pc = "record"
  /\ stats' = apply_tags(records[1])
  /\ pc' = "tagged"
  /\ UNCHANGED <<records, rules, ris_text, out_records>>

\* phase = tag_phase(text_norm); challenges = tag_challenges(text_norm) in
\* select_representatives of Step9
TagPhase ==
  /\ pc = "record"
  /\ stats' = [phases |-> << tag_phase(select_get_text_content(records[1])) >>,
               challenges |-> tag_challenges(select_get_text_content(records[1]))]
  /\ pc' = "phase_tagged"
  /\ UNCHANGED <<records, rules, ris_text, out_records>>

NextPhase ==
  \/ ApplyTags
  \/ TagPhase

SpecPhase == InitPhase /\ [][NextPhase]_vars

\* the positions in a rule table of the rules that match the record
MatchingRules(rule_list, record) ==
  {k \in 1..Len(rule_list) : WordsOf(record) \cap rule_list[k].rx # {}}

\* the rule of a table with the given label
RuleIndex(rule_list, label) ==
  CHOOSE k \in 1..Len(rule_list) : rule_list[k].label = label

\* tags holds the labels of exactly the matching rules, once, in table order
AllMatching(tags, rule_list, record) ==
  /\ {RuleIndex(rule_list, tags[i]) : i \in 1..Len(tags)}
       = MatchingRules(rule_list, record)
  /\ \A i \in 1..Len(tags) - 1 :
       RuleIndex(rule_list, tags[i]) < RuleIndex(rule_list, tags[i + 1])

\* exactly one phase: the first matching rule of the list, or a sentinel
OnePhase(phases, record) ==
  /\ Len(phases) = 1
  /\ LET m == MatchingRules(PHASE_RULES, record)
     IN IF m = {} THEN \A k \in 1..Len(PHASE_RULES) : PHASE_RULES[k].label # phases[1]
        ELSE /\ phases[1] = PHASE_RULES[CHOOSE k \in m : \A j \in m : k <= j].label

\* C14 as stated: phase tagging (tag_phase of Step9 and apply_tags of Step8)
\* assigns exactly one phase per record, the label of the first matching rule
\* of the priority list or a sentinel
C14_OnePhaseEverywhere ==
  pc \in {"tagged", "phase_tagged"} => OnePhase(stats.phases, records[1])

\* C14, amended: tag_phase of the selection stage assigns exactly one phase,
\* the label of the first matching rule or the sentinel UNSPECIFIED, and
\* tag_challenges every matching challenge (GENERAL when none matches);
\* apply_tags of the tagging stage records every matching phase and every
\* matching challenge, in the order of the lists, and nothing without match
C14_PhaseTagging ==
  /\ pc = "phase_tagged" =>
       /\ OnePhase(stats.phases, records[1])
       /\ MatchingRules(PHASE_RULES, records[1]) = {} => stats.phases = <<"UNSPECIFIED">>
       /\ IF MatchingRules(CHALLENGE_RULES, records[1]) = {}
          THEN stats.challenges = <<"GENERAL">>
          ELSE AllMatching(stats.challenges, CHALLENGE_RULES, records[1])
  /\ pc = "tagged" =>
       /\ AllMatching(stats.phases, PHASE_RULES, records[1])
       /\ AllMatching(stats.challenges, CHALLENGE_RULES, records[1])

\* a record with an LLM and a transformer signal and two challenges, tagged
\* by the selection stage: LLM_RAG_XAI only, both challenges
C14_Witness ==
  /\ pc = "phase_tagged"
  /\ {"llm", "bert"} \subseteq WordsOf(records[1])
  /\ stats.phases = <<"LLM_RAG_XAI">>
  /\ stats.challenges = <<"HIERARCHY", "MAPPING_INTEROP">>

(***************************************************************************)
(* Step3_merge_and_deduplicate.parse_ris_file: the merge-stage parser      *)
(***************************************************************************)
\* the terminator prefix the merge parser tests (no trailing blank)
MERGE_ER == <<"E", "R", " ", " ", "-">>

\* a record delimiter: the current record is emitted unless it is empty
\* st = [recs, cur, current_tag]
merge_terminator_keeps_record(st) ==
  [recs |-> IF st.cur # <<>> THEN Append(st.recs, st.cur) ELSE st.recs,
   cur |-> st.cur, current_tag |-> None]

merge_terminator(st) ==
  IF st.cur # <<>>
  THEN [recs |-> Append(st.recs, st.cur), cur |-> <<>>, current_tag |-> None]
  ELSE [st EXCEPT !.current_tag = None]

\* a tag line: a first value is stored as a string, later ones make a list
merge_tag_line_overwrite(st, line) ==
  LET tag == SubSeq(line, 1, 2)
      value == Strip(Drop(line, 7))
  IN [st EXCEPT !.current_tag = tag,
                !.cur = IF HasTag(st.cur, tag)
                        THEN [i \in 1..Len(st.cur) |->
                                IF st.cur[i].tag = tag
                                THEN [tag |-> tag, values |-> <<value>>]
                                ELSE st.cur[i]]
                        ELSE Append(st.cur, [tag |-> tag, values |-> <<value>>])]

merge_tag_line(st, line) ==
  LET tag == SubSeq(line, 1, 2)
      value == Strip(Drop(line, 7))
  IN [st EXCEPT !.current_tag = tag, !.cur = DictAppend(st.cur, tag, value)]

\* a continuation line: joined with one blank to the last value of the tag
merge_continuation(st, line) ==
  [st EXCEPT !.cur =
     [i \in 1..Len(st.cur) |->
        IF st.cur[i].tag = st.current_tag
        THEN LET vs == st.cur[i].values
             IN [tag |-> st.cur[i].tag,
                 values |-> [vs EXCEPT ![Len(vs)] = @ \o <<" ">> \o Strip(line)]]
        ELSE st.cur[i]]]

\* one iteration of the line loop
merge_parse_line_restarts(st, raw) ==
  LET line == RStripSet(raw, {"\n"})
  IN IF StartsWith(line, MERGE_ER) THEN merge_terminator(st)
     ELSE IF Contains(SubSeq(line, 1, Min(6, Len(line))), SEP)
          THEN merge_tag_line(st, line)
          ELSE IF st.current_tag # None /\ Strip(line) # <<>>
               THEN merge_continuation(st, line)
               ELSE [st EXCEPT !.cur = <<>>]

merge_parse_line(st, raw) ==
  LET line == RStripSet(raw, {"\n"})
  IN IF StartsWith(line, MERGE_ER) THEN merge_terminator(st)
     ELSE IF Contains(SubSeq(line, 1, Min(6, Len(line))), SEP)
          THEN merge_tag_line(st, line)
          ELSE IF st.current_tag # None /\ Strip(line) # <<>>
               THEN merge_continuation(st, line)
               ELSE st

(***************************************************************************)
(* The line loop of the two parsers, one line per step                     *)
(***************************************************************************)
\* lines read so far are bounded
MaxText == 4

\* tag lines (a repeated tag, a second tag, an empty value), the
\* terminator, a line without separator and a blank line
LINE_TI_A == <<"T", "I", " ", " ", "-", " ", "a">>
LINE_TI_B == <<"T", "I", " ", " ", "-", " ", "b">>
LINE_AU == <<"A", "U", " ", " ", "-", " ", "c">>
LINE_EMPTY_VALUE == <<"T", "I", " ", " ", "-", " ">>
LINE_ER == <<"E", "R", " ", " ", "-", " ">>
LINE_MORE == <<" ", "m", "o", "r", "e", " ">>
LINE_BLANK == <<>>

LINES == {LINE_TI_A, LINE_TI_B, LINE_AU, LINE_EMPTY_VALUE, LINE_ER,
          LINE_MORE, LINE_BLANK}

\* records = records emitted, out_records = current_record,
\* stats = current_tag, ris_text = lines read, rules = the parser
InitParse ==
  /\ pc = "parsing"
  /\ rules \in {"merge", "filter"}
  /\ ris_text = <<>>
  /\ records = <<>>
  /\ out_records = <<>>
  /\ stats = None

MergeParseLine ==
  /\ pc = "parsing"
  /\ rules = "merge"
  /\ Len(ris_text) < MaxText
  /\ \E line \in LINES :
       LET st == merge_parse_line(
                   [recs |-> records, cur |-> out_records,
                    current_tag |-> stats], line \o <<"\n">>)
       IN /\ ris_text' = Append(ris_text, line)
          /\ records' = st.recs
          /\ out_records' = st.cur
          /\ stats' = st.current_tag
  /\ UNCHANGED <<pc, rules>>

FilterParseLine ==
  /\ pc = "parsing"
  /\ rules = "filter"
  /\ Len(ris_text) < MaxText
  /\ \E line \in LINES :
       LET st == parse_line([recs |-> records, cur |-> out_records],
                            line \o <<"\n">>)
       IN /\ ris_text' = Append(ris_text, line)
          /\ records' = st.recs
          /\ out_records' = st.cur
  /\ UNCHANGED <<pc, rules, stats>>

\* end of file: the records emitted so far are returned
ParseReturn ==
  /\ pc = "parsing"
  /\ pc' = "parsed"
  /\ UNCHANGED <<records, rules, ris_text, out_records, stats>>

\* open() or the read of the next line fails in the merge parser: the
\* except clause prints the error and the records emitted so far are returned
MergeIoFailure ==
  /\ pc = "parsing"
  /\ rules = "merge"
  /\ pc' = "parsed_after_error"
  /\ UNCHANGED <<records, rules, ris_text, out_records, stats>>

\* open() or the read of the next line fails in the filter-stage parser:
\* the exception leaves parse_ris_file
FilterIoFailure ==
  /\ pc = "parsing"
  /\ rules = "filter"
  /\ pc' = "io_error"
  /\ UNCHANGED <<records, rules, ris_text, out_records, stats>>

NextParse ==
  \/ MergeParseLine
  \/ FilterParseLine
  \/ ParseReturn
  \/ MergeIoFailure
  \/ FilterIoFailure

SpecParse == InitParse /\ [][NextParse]_vars

\* the line read by the step, and what the file format says about a line
LastLine == ris_text'[Len(ris_text')]

ReadsLine == pc = "parsing" /\ pc' = "parsing" /\ Len(ris_text') = Len(ris_text) + 1

IsTerminator(line) == StartsWith(line, ER_LINE)

IsTagLine(line) ==
  /\ ~IsTerminator(line)
  /\ Len(line) >= 6
  /\ SubSeq(line, 3, 6) = SEP

LineTag(line) == SubSeq(line, 1, 2)

LineValue(line) == Strip(Drop(line, 7))

\* the tag of the last tag line since the last terminator, None if none
RECURSIVE CurrentTag(_)
CurrentTag(lines) ==
  IF lines = <<>> THEN None
  ELSE LET last == lines[Len(lines)]
       IN IF IsTerminator(last) THEN None
          ELSE IF IsTagLine(last) THEN LineTag(last)
          ELSE CurrentTag(SubSeq(lines, 1, Len(lines) - 1))

\* the tags of the tag lines since the last terminator
RECURSIVE TagsSince(_)
TagsSince(lines) ==
  IF lines = <<>> THEN {}
  ELSE LET last == lines[Len(lines)]
       IN IF IsTerminator(last) THEN {}
          ELSE (IF IsTagLine(last) THEN {LineTag(last)} ELSE {})
               \cup TagsSince(SubSeq(lines, 1, Len(lines) - 1))

OtherTagsSame(t) ==
  /\ Tags(out_records') = Tags(out_records) \cup {t}
  /\ \A u \in Tags(out_records) \ {t} : Get(out_records', u) = Get(out_records, u)

(***************************************************************************)
(* C15: a tag line whose tag the current record already holds appends its  *)
(* value at the end of that tag's value list, in file order, and leaves    *)
(* the earlier values of the tag and every other tag as they were; this    *)
(* holds for the merge parser and for the filter-stage parser              *)
(***************************************************************************)
C15_RepeatedTagStep ==
  (ReadsLine /\ IsTagLine(LastLine) /\ HasTag(out_records, LineTag(LastLine)))
  => /\ Get(out_records', LineTag(LastLine))
          = Append(Get(out_records, LineTag(LastLine)), LineValue(LastLine))
     /\ OtherTagsSame(LineTag(LastLine))
     /\ records' = records

C15_RepeatedTagsAppend == [][C15_RepeatedTagStep]_vars

C15_Witness ==
  /\ rules = "merge"
  /\ ris_text = <<LINE_TI_A, LINE_AU, LINE_TI_B, LINE_ER>>
  /\ records = << <<[tag |-> LineTag(LINE_TI_A), values |-> << <<"a">>, <<"b">> >>],
                    [tag |-> LineTag(LINE_AU), values |-> << <<"c">> >>]>> >>

(***************************************************************************)
(* C16: a non-blank line that is neither a tag line nor a terminator, read *)
(* while a tag of the current record is active, appends its trimmed text,  *)
(* after one blank, to the last value of that tag and changes nothing      *)
(* else, in the merge parser and in the filter-stage parser alike          *)
(***************************************************************************)
IsContinuation(line) ==
  ~IsTerminator(line) /\ ~IsTagLine(line) /\ Strip(line) # <<>>

C16_ContinuationStep ==
  (ReadsLine /\ IsContinuation(LastLine) /\ CurrentTag(ris_text) # None)
  => LET t == CurrentTag(ris_text)
         vs == Get(out_records, t)
     IN /\ HasTag(out_records, t)
        /\ Get(out_records', t)
             = [vs EXCEPT ![Len(vs)] = @ \o <<" ">> \o Strip(LastLine)]
        /\ OtherTagsSame(t)
        /\ records' = records

C16_ContinuationAppends == [][C16_ContinuationStep]_vars

(***************************************************************************)
(* C17: a terminator read with at least one accumulated tag emits exactly  *)
(* one record, the accumulated one, and leaves an empty current record and *)
(* no current tag; a terminator read with nothing accumulated emits no     *)
(* record; the tags accumulated are exactly those of the tag lines read    *)
(* since the previous terminator                                           *)
(***************************************************************************)
C17_TerminatorStep ==
  (ReadsLine /\ IsTerminator(LastLine))
  => /\ records' = IF out_records # <<>> THEN Append(records, out_records)
                   ELSE records
     /\ out_records' = <<>>
     /\ stats' = None

C17_Accumulated ==
  /\ Tags(out_records) = TagsSince(ris_text)
  /\ rules = "merge" => stats = CurrentTag(ris_text)

C17_Terminator == []C17_Accumulated /\ [][C17_TerminatorStep]_vars

C17_Witness ==
  /\ rules = "merge"
  /\ ris_text = <<LINE_TI_A, LINE_ER, LINE_ER, LINE_AU>>
  /\ Len(records) = 1
  /\ Tags(records[1]) = {LineTag(LINE_TI_A)}
  /\ Tags(out_records) = {LineTag(LINE_AU)}

(***************************************************************************)
(* C18: a malformed line, one without field separator that is neither a    *)
(* terminator nor the continuation of an active tag, is skipped: the line  *)
(* loop goes on, no emitted record, no tag and no value changes, and the   *)
(* parser is in the state it would be in had the malformed lines been      *)
(* absent from the file                                                    *)
(***************************************************************************)
IsMalformed(line, before) ==
  /\ ~IsTerminator(line)
  /\ ~IsTagLine(line)
  /\ Strip(line) = <<>> \/ CurrentTag(before) = None

\* the lines without the malformed ones
RECURSIVE Clean(_)
Clean(lines) ==
  IF lines = <<>> THEN <<>>
  ELSE LET before == SubSeq(lines, 1, Len(lines) - 1)
           last == lines[Len(lines)]
       IN IF IsMalformed(last, before) THEN Clean(before)
          ELSE Append(Clean(before), last)

RECURSIVE merge_parse_lines(_, _)
merge_parse_lines(st, lines) ==
  IF lines = <<>> THEN st
  ELSE merge_parse_lines(merge_parse_line(st, Head(lines)), Tail(lines))

C18_MalformedStep ==
  (ReadsLine /\ IsMalformed(LastLine, ris_text))
  => UNCHANGED <<records, out_records, stats>>

C18_AsIfAbsent ==
  IF rules = "merge"
  THEN [recs |-> records, cur |-> out_records, current_tag |-> stats]
         = merge_parse_lines([recs |-> <<>>, cur |-> <<>>, current_tag |-> None],
                             Clean(ris_text))
  ELSE [recs |-> records, cur |-> out_records]
         = parse_lines([recs |-> <<>>, cur |-> <<>>], Clean(ris_text))

NoEmptyValue(rec) ==
  \A i \in 1..Len(rec) :
     /\ rec[i].values # <<>>
     /\ \A j \in 1..Len(rec[i].values) : rec[i].values[j] # <<>>

C19_EmptyValueStep ==
  (ReadsLine /\ IsTagLine(LastLine) /\ LineValue(LastLine) = <<>>)
  => out_records' = out_records

C19_NoEmptyValues ==
  /\ [](\A i \in 1..Len(records) : NoEmptyValue(records[i]))
  /\ [][C19_EmptyValueStep]_vars

(***************************************************************************)
(* C20: the journal name the journal filter uses is the first value of the *)
(* first populated tag among JO, JF, T2, in that order, a tag being        *)
(* populated when it holds a non-empty value; a record is kept exactly     *)
(* when that name matches the allow list, so a record with an unpopulated  *)
(* JO and an allow-listed JF is kept                                       *)
(***************************************************************************)
Populated(record, t) ==
  /\ HasTag(record, t)
  /\ \E j \in 1..Len(Get(record, t)) : Get(record, t)[j] # <<>>

JournalName(record) ==
  IF Populated(record, JO) THEN Strip(Get(record, JO)[1])
  ELSE IF Populated(record, JF) THEN Strip(Get(record, JF)[1])
  ELSE IF Populated(record, T2) THEN Strip(Get(record, T2)[1])
  ELSE None

KeptByName(record, target_journals) ==
  /\ Truthy(JournalName(record))
  /\ matches_target_journal(JournalName(record), target_journals) # None

C20_JournalPriority ==
  /\ \A i \in 1..Len(records) :
       Truthy(get_journal_from_record(records[i])) \/ Truthy(JournalName(records[i]))
       => get_journal_from_record(records[i]) = JournalName(records[i])
  /\ pc = "journal_done" =>
       out_records = SelectSeq(records, LAMBDA r : KeptByName(r, rules))

(***************************************************************************)
(* C21: in the output of a deduplicator the records that have a DOI are    *)
(* the first-seen records of the DOIs, in the order of their first         *)
(* occurrence in the flattened input, and the records without DOI are the  *)
(* input records without DOI, in their input order                         *)
(***************************************************************************)
RECURSIVE FirstSeenFrom(_, _)
FirstSeenFrom(recs, i) ==
  IF i > Len(recs) THEN <<>>
  ELSE (IF Truthy(KeyOf(recs[i])) /\ FirstPosition(recs, KeyOf(recs[i])) = i
        THEN <<recs[i]>> ELSE <<>>)
       \o FirstSeenFrom(recs, i + 1)

WithKey(recs) == SelectSeq(recs, LAMBDA r : Truthy(KeyOf(r)))

WithoutKey(recs) == SelectSeq(recs, LAMBDA r : ~Truthy(KeyOf(r)))

C21_OutputOrder ==
  /\ pc \in {"deduped", "merged"} =>
       /\ WithKey(out_records) = FirstSeenFrom(records, 1)
       /\ WithoutKey(out_records) = WithoutKey(records)
  /\ pc = "raised" =>
       /\ IsSubsequence(WithKey(out_records), FirstSeenFrom(records, 1))
       /\ IsSubsequence(WithoutKey(out_records), WithoutKey(records))

C21_Witness ==
  /\ pc = "merged"
  /\ Len(records) = 3
  /\ ~Truthy(KeyOf(records[1]))
  /\ Truthy(KeyOf(records[2]))
  /\ Truthy(KeyOf(records[3]))
  /\ KeyOf(records[2]) # KeyOf(records[3])
  /\ out_records = <<records[2], records[3], records[1]>>

(***************************************************************************)
(* The dedup key of a DOI value                                            *)
(***************************************************************************)
\* spellings of one DOI: a prefix in lower or upper case, a blank before
\* or after, the DOI itself in lower or upper case; and a second DOI
DOI_PREFIXES ==
  { <<>>, DOI_COLON, <<"D", "O", "I", ":">>, HTTPS_DOI,
    <<"H", "T", "T", "P", "S", ":", "/", "/", "D", "O", "I", ".", "O", "R", "G", "/">> }

DOI_CORES == { <<"1", "/", "a">>, <<"1", "/", "A">>, <<"1", "/", "b">> }

DOI_VALUES ==
  { l \o p \o c \o r : l \in {<<>>, <<" ">>}, r \in {<<>>, <<" ">>},
                       p \in DOI_PREFIXES, c \in DOI_CORES }

\* two parsed records that differ in their DO value only
InitDoi ==
  /\ pc = "collect"
  /\ \E v \in DOI_VALUES, w \in DOI_VALUES :
       records = <<DedupRecord(<<"p">>, <<v>>), DedupRecord(<<"p">>, <<w>>)>>
  /\ rules = "none"
  /\ ris_text = <<>>
  /\ out_records = <<>>
  /\ stats = "none"

\* Step3_merge_ris_by_keyphrase: deduplicate_records(all_records)
DoiDedup ==
  /\ pc = "collect"
  /\ LET r == deduplicate_records(records)
     IN /\ out_records' = r.unique_records
        /\ stats' = [duplicates |-> r.duplicates, no_doi_count |-> r.no_doi_count]
  /\ pc' = "deduped"
  /\ UNCHANGED <<rules, records, ris_text>>

\* Step3_merge_and_deduplicate: both records come from one folder
DoiMerge ==
  /\ pc = "collect"
  /\ LET tagged == [i \in 1..Len(records) |-> SetSource(records[i], ACM)]
         r == merge_and_deduplicate(tagged)
     IN /\ records' = r.all_records
        /\ out_records' = r.unique_records
        /\ stats' = IF r.raised THEN "none" ELSE r.stats
        /\ pc' = IF r.raised THEN "raised" ELSE "merged"
  /\ UNCHANGED <<rules, ris_text>>

NextDoi == DoiDedup \/ DoiMerge

SpecDoi == InitDoi /\ [][NextDoi]_vars

\* the value lower-cased, trimmed, without its leading prefix
Canon(v) ==
  LET l == Strip(Lower(v))
  IN IF StartsWith(l, HTTPS_DOI) THEN RemovePrefix(l, HTTPS_DOI)
     ELSE RemovePrefix(l, DOI_COLON)

DoiValue(i) == Get(records[i], DO)[1]

(***************************************************************************)
(* C22: the dedup key of a DOI value is the value lower-cased, trimmed and *)
(* without a leading https://doi.org/ or doi: prefix, and two records      *)
(* whose DOI values differ only in letter case, surrounding blanks or such *)
(* a prefix in any letter case are duplicates: one of them is retained     *)
(***************************************************************************)
C22_NormalizedDoi ==
  pc \in {"deduped", "merged"} =>
    /\ \A i \in 1..2 : KeyOf(records[i]) = Canon(DoiValue(i))
    /\ Canon(DoiValue(1)) = Canon(DoiValue(2)) => Len(out_records) = 1

(***************************************************************************)
(* step7_filter2_icd_relevance: ICD relevance check on the rows of a CSV   *)
(***************************************************************************)
\* ICD_KEYWORDS: name and the words in which the pattern matches
ICD_KEYWORDS ==
  << [name |-> "ICD", rx |-> {"icd", "icd-10", "icd coding"}],
     [name |-> "ICD Code", rx |-> {"icd coding"}],
     [name |-> "International Classification of Diseases",
      rx |-> {"international classification of diseases"}],
     [name |-> "Medical Coding", rx |-> {"medical coding"}],
     [name |-> "Clinical Coding", rx |-> {"clinical coding"}],
     [name |-> "Diagnosis Coding", rx |-> {"diagnosis coding", "diagnostic coding"}],
     [name |-> "Diagnostic Coding", rx |-> {"diagnostic coding"}],
     [name |-> "Code Assignment", rx |-> {"code assignment"}],
     [name |-> "Disease Classification", rx |-> {"disease classification"}],
     [name |-> "Health Record Coding", rx |-> {"health record coding"}],
     [name |-> "Clinical Classification", rx |-> {"clinical classification"}] >>

NO_TEXT == "No title, abstract, or keywords available for evaluation"

NO_ICD_TERMS == "Paper does not mention any ICD-related terms"

ICD_IN_TITLE == "Paper mentions ICD-related terms in TITLE"

ICD_IN_ABSTRACT == "Paper mentions ICD-related terms in ABSTRACT"

ICD_IN_KEYWORDS == "Paper mentions ICD-related terms in KEYWORDS"

\* str(row.get(field, '')).lower() if pd.notna(row.get(field)) else ''
get_text_from_row(row, field) ==
  IF NotNa(row, field)
  THEN [i \in 1..Len(row[field]) |-> LowerWord(row[field][i])]
  ELSE <<>>

find_icd_keywords(text) ==
  LET hits == SelectSeq(ICD_KEYWORDS, LAMBDA k : Search(k.rx, text))
  IN [i \in 1..Len(hits) |-> hits[i].name]

check_icd_relevance(row) ==
  LET title == get_text_from_row(row, "Title")
      abstract == get_text_from_row(row, "Abstract")
      keywords == get_text_from_row(row, "Keywords")
  IN IF title = <<>> /\ abstract = <<>> /\ keywords = <<>>
     THEN [decision |-> "EXCLUDE", matched_terms |-> <<>>,
           location |-> "N/A", reason |-> NO_TEXT]
     ELSE IF find_icd_keywords(title) # <<>>
     THEN [decision |-> "PASS", matched_terms |-> find_icd_keywords(title),
           location |-> "Title", reason |-> ICD_IN_TITLE]
     ELSE IF find_icd_keywords(abstract) # <<>>
     THEN [decision |-> "PASS", matched_terms |-> find_icd_keywords(abstract),
           location |-> "Abstract", reason |-> ICD_IN_ABSTRACT]
     ELSE IF find_icd_keywords(keywords) # <<>>
     THEN [decision |-> "PASS", matched_terms |-> find_icd_keywords(keywords),
           location |-> "Keywords", reason |-> ICD_IN_KEYWORDS]
     ELSE [decision |-> "EXCLUDE", matched_terms |-> <<>>,
           location |-> "N/A", reason |-> NO_ICD_TERMS]

(***************************************************************************)
(* The decision and the reason of three stages on one record               *)
(***************************************************************************)
\* a content signal, a methodology signal, an ICD term, a plain word
REASON_WORDS == {"pos1", "bert", "icd", "w"}

ReasonSeqs(n) == UNION {[1..k -> REASON_WORDS] : k \in 0..n}

ReasonRecord(title, abstract, keywords) ==
  TextRecord(title, abstract)
  \o (IF keywords = <<>> THEN <<>> ELSE << [tag |-> KW, values |-> <<keywords>>] >>)

\* the row of the CSV export of a record; an empty cell is read as NaN
RowOf(record) ==
  LET cell(t) == IF JoinText(record, t) = <<>> THEN None ELSE JoinText(record, t)
  IN [Title |-> cell(TI), Abstract |-> cell(AB), Keywords |-> cell(KW)]

InitReason ==
  /\ pc = "record"
  /\ \E title \in ReasonSeqs(MaxWords), abstract \in ReasonSeqs(MaxWords),
        keywords \in {<<>>, <<"w">>} :
       records = << ReasonRecord(title, abstract, keywords) >>
  /\ rules = "none"
  /\ ris_text = <<>>
  /\ out_records = <<>>
  /\ stats = "none"

ContentReason ==
  /\ pc = "record"
  /\ rules' = "content"
  /\ stats' = [keep |-> should_keep_record(records[1]).keep,
               reason |-> should_keep_record(records[1]).reason]
  /\ pc' = "decided"
  /\ UNCHANGED <<records, ris_text, out_records>>

MethodologyReason ==
  /\ pc = "record"
  /\ rules' = "methodology"
  /\ stats' = [keep |-> methodology_should_keep_record(records[1]).keep,
               reason |-> methodology_should_keep_record(records[1]).reason]
  /\ pc' = "decided"
  /\ UNCHANGED <<records, ris_text, out_records>>

IcdRelevanceReason ==
  /\ pc = "record"
  /\ rules' = "icd_relevance"
  /\ stats' = [keep |-> check_icd_relevance(RowOf(records[1])).decision = "PASS",
               reason |-> check_icd_relevance(RowOf(records[1])).reason]
  /\ pc' = "decided"
  /\ UNCHANGED <<records, ris_text, out_records>>

NextReason == ContentReason \/ MethodologyReason \/ IcdRelevanceReason

SpecReason == InitReason /\ [][NextReason]_vars

EmptyText(record) ==
  JoinText(record, TI) = <<>> /\ JoinText(record, AB) = <<>>
  /\ JoinText(record, KW) = <<>>

\* the reason the stage gives a record without any text
EmptyTextReason(stage) ==
  IF stage = "content" THEN should_keep_record(<<>>).reason
  ELSE IF stage = "methodology" THEN methodology_should_keep_record(<<>>).reason
  ELSE check_icd_relevance(RowOf(<<>>)).reason

(***************************************************************************)
(* C23: in each of the three stages a record whose title, abstract and     *)
(* keywords are all empty is rejected, and no record that has text gets    *)
(* the reason the stage gives the record without text                      *)
(***************************************************************************)
C23_EmptyTextReason ==
  pc = "decided" =>
    IF EmptyText(records[1]) THEN ~stats.keep
    ELSE stats.reason # EmptyTextReason(rules)

(***************************************************************************)
(* filter_file of the journal and type stages, print_statistics of the     *)
(* merge: the counts of a run and the percentages computed from them       *)
(***************************************************************************)
\* a / b * 100 as the exact fraction num / den
Percent(a, b) == [num |-> a * 100, den |-> b]

ZERO_PERCENT == [num |-> 0, den |-> 1]

\* Step4_filter_by_journal.filter_file: the percentage is computed before
\* the output is written; a division by zero raises ZeroDivisionError
journal_filter_file(recs, target_journals) ==
  LET r == filter_by_journal(recs, target_journals)
      records_before == Len(recs)
      records_after == Len(r.filtered_records)
      records_removed == records_before - records_after
  IN IF records_before = 0
     THEN [raised |-> TRUE, written |-> <<>>, stats |-> "none"]
     ELSE [raised |-> FALSE,
           written |-> r.filtered_records,
           stats |-> [before |-> records_before, after |-> records_after,
                      removed |-> records_removed,
                      percent |-> Percent(records_removed, records_before),
                      matched_journals |-> r.matched,
                      no_journal |-> r.no_journal]]

\* Step5_filter_by_type.filter_file
type_filter_file(recs, keep_types, remove_types) ==
  LET r == filter_by_type(recs, keep_types, remove_types)
      records_before == Len(recs)
      records_after == Len(r.filtered_records)
      records_removed == records_before - records_after
  IN [raised |-> FALSE,
      written |-> r.filtered_records,
      stats |-> [before |-> records_before, after |-> records_after,
                 removed |-> records_removed,
                 percent |-> IF records_before > 0
                             THEN Percent(records_removed, records_before)
                             ELSE ZERO_PERCENT,
                 kept_types |-> r.kept, removed_types |-> r.removed,
                 no_type |-> r.no_type]]

\* Step3_merge_and_deduplicate.print_statistics: the deduplication rate
print_statistics(st) ==
  IF st.total_records_before = 0 THEN [raised |-> TRUE, rate |-> "none"]
  ELSE [raised |-> FALSE,
        rate |-> Percent(st.duplicates_removed, st.total_records_before)]

\* records of a parsed file: with and without journal, type and DOI
FILE_RECORDS ==
  { JournalRecord(<< <<"S", "e", "n", "s", "o", "r", "s">> >>, <<>>, <<>>),
    JournalRecord(<< <<"N", "a", "t", "u", "r", "e">> >>, <<>>, <<>>),
    JournalRecord(<<>>, <<>>, <<>>),
    TypeRecord(<<JOUR>>, <<"w">>),
    TypeRecord(<<BOOK>>, <<"w">>),
    DedupRecord(<<"p">>, << <<"1", "/", "a">> >>) }

FILE_JOURNALS == << <<"S", "e", "n", "s", "o", "r", "s">> >>

InitFile ==
  /\ pc = "collect"
  /\ records = <<>>
  /\ rules = "none"
  /\ ris_text = <<>>
  /\ out_records = <<>>
  /\ stats = "none"

\* records = parse_ris_file(input_file): one more record of the file
FileInput(record) ==
  /\ pc = "collect"
  /\ Len(records) < MaxStage
  /\ records' = Append(records, record)
  /\ UNCHANGED <<pc, rules, ris_text, out_records, stats>>

JournalFilterFile ==
  /\ pc = "collect"
  /\ rules' = "journal"
  /\ LET r == journal_filter_file(records, FILE_JOURNALS)
     IN /\ out_records' = r.written
        /\ stats' = r.stats
        /\ pc' = IF r.raised THEN "raised" ELSE "done"
  /\ UNCHANGED <<records, ris_text>>

TypeFilterFile ==
  /\ pc = "collect"
  /\ rules' = "type"
  /\ LET r == type_filter_file(records, KEEP_TYPES, REMOVE_TYPES)
     IN /\ out_records' = r.written
        /\ stats' = r.stats
        /\ pc' = IF r.raised THEN "raised" ELSE "done"
  /\ UNCHANGED <<records, ris_text>>

\* main of Step3_merge_and_deduplicate: the output is written, then the
\* statistics are printed
MergeStatistics ==
  /\ pc = "collect"
  /\ rules' = "merge"
  /\ LET tagged == [i \in 1..Len(records) |-> SetSource(records[i], ACM)]
         r == merge_and_deduplicate(tagged)
         p == print_statistics(r.stats)
     IN /\ out_records' = r.unique_records
        /\ stats' = IF p.raised THEN "none"
                    ELSE [before |-> r.stats.total_records_before,
                          after |-> r.stats.total_records_after,
                          removed |-> r.stats.duplicates_removed,
                          percent |-> p.rate]
        /\ pc' = IF p.raised THEN "raised" ELSE "done"
  /\ UNCHANGED <<records, ris_text>>

NextFile ==
  \/ \E record \in FILE_RECORDS : FileInput(record)
  \/ JournalFilterFile
  \/ TypeFilterFile
  \/ MergeStatistics

SpecFile == InitFile /\ [][NextFile]_vars

(***************************************************************************)
(* C24: a stage run on an empty record set ends without raising, with an   *)
(* empty output and every count zero, and no percentage it computes has a  *)
(* zero denominator                                                        *)
(***************************************************************************)
C24_EmptyInput ==
  /\ pc # "raised"
  /\ pc = "done" =>
       /\ stats.percent.den # 0
       /\ records = <<>> =>
            /\ out_records = <<>>
            /\ stats.before = 0 /\ stats.after = 0 /\ stats.removed = 0
            /\ stats.percent.num = 0

(***************************************************************************)
(* C25: when the source file cannot be opened or read, parse_ris_file      *)
(* signals the failure to its caller: it never returns a record list after *)
(* a failure as it does after a complete read                              *)
(***************************************************************************)
C25_IoFailureSignalled == pc # "parsed_after_error"

(***************************************************************************)
(* Step8_tag_papers: the note of a record and tag_file                     *)
(*                                                                         *)
(* A note is a sequence of tokens: the marker, then the tag lines joined   *)
(* with "|", the labels of a tag line joined with ",".                     *)
(***************************************************************************)
N1 == <<"N", "1">>

\* sep.join(parts) on token sequences
RECURSIVE JoinWith(_, _)
JoinWith(parts, sep) ==
  IF parts = <<>> THEN <<>>
  ELSE IF Len(parts) = 1 THEN parts[1]
  ELSE parts[1] \o <<sep>> \o JoinWith(Tail(parts), sep)

LabelList(labels) == JoinWith([i \in 1..Len(labels) |-> <<labels[i]>>], ",")

\* tag_lines of add_tags_to_record
tag_lines_of(tags) ==
  LET flags == (IF tags.has_metrics THEN <<"HAS_METRICS">> ELSE <<>>)
               \o (IF tags.has_novelty THEN <<"NOVEL">> ELSE <<>>)
               \o (IF tags.has_coding_task THEN <<"CODING_TASK">> ELSE <<>>)
  IN (IF tags.year_bucket # "UNKNOWN"
      THEN << <<"PERIOD:", tags.year_bucket>> >> ELSE <<>>)
     \o (IF tags.phases # <<>>
         THEN << <<"METHODS:">> \o LabelList(tags.phases) >> ELSE <<>>)
     \o (IF tags.challenges # <<>>
         THEN << <<"CHALLENGES:">> \o LabelList(tags.challenges) >> ELSE <<>>)
     \o (IF tags.datasets # <<>>
         THEN << <<"DATASETS:">> \o LabelList(tags.datasets) >> ELSE <<>>)
     \o (IF flags # <<>> THEN << <<"FLAGS:">> \o LabelList(flags) >> ELSE <<>>)

tag_text_of(tags) == <<"[AUTO_TAGS]">> \o JoinWith(tag_lines_of(tags), "|")

\* add_tags_to_record: the record it returns
add_tags_to_record(record, tags) ==
  IF tag_lines_of(tags) # <<>>
  THEN DictAppend(record, N1, tag_text_of(tags))
  ELSE record

\* one iteration of the loop of tag_file: add_tags_to_record(record.copy(),
\* tags).  The copy is shallow: it is a new dict that holds the value lists
\* of the input record, so a value appended to a list the input record
\* already has shows in the input record, a tag added to the copy does not.
tag_file_step(record) ==
  LET tags == apply_tags(record)
  IN [tagged |-> add_tags_to_record(record, tags),
      input |-> IF tag_lines_of(tags) # <<>> /\ HasTag(record, N1)
                THEN DictAppend(record, N1, tag_text_of(tags))
                ELSE record]

\* tag_file: the input list after the run and tagged_records
tag_file(recs) ==
  [records |-> [i \in 1..Len(recs) |-> tag_file_step(recs[i]).input],
   tagged_records |-> [i \in 1..Len(recs) |-> tag_file_step(recs[i]).tagged]]

\* a note a record carries before it is tagged
OLD_NOTE == <<"w">>

TagRecord(title, abstract, notes) ==
  TextRecord(title, abstract)
  \o (IF notes = <<>> THEN <<>> ELSE << [tag |-> N1, values |-> notes] >>)

\* ris_text = the records of the input file as parsed, records = the parsed
\* list after the run, out_records = tagged_records
InitTag ==
  /\ pc = "parsed"
  /\ \E title \in PhaseSeqs(MaxWords), abstract \in {<<>>, <<"w">>, <<"icd-10">>},
        notes \in {<<>>, <<OLD_NOTE>>} :
       records = << TagRecord(title, abstract, notes) >>
  /\ ris_text = records
  /\ rules = "none"
  /\ out_records = <<>>
  /\ stats = "none"

TagFile ==
  /\ pc = "parsed"
  /\ records' = tag_file(records).records
  /\ out_records' = tag_file(records).tagged_records
  /\ pc' = "tagged_file"
  /\ UNCHANGED <<rules, ris_text, stats>>

\* tag_file run on the file the first run wrote
TagFileAgain ==
  /\ pc = "tagged_file"
  /\ ris_text' = out_records
  /\ records' = tag_file(out_records).records
  /\ out_records' = tag_file(out_records).tagged_records
  /\ pc' = "tagged_again"
  /\ UNCHANGED <<rules, stats>>

NextTag == TagFile \/ TagFileAgain

SpecTag == InitTag /\ [][NextTag]_vars

(***************************************************************************)
(* C26: after the tagging stage has run, every record of its input list    *)
(* has the tags and the value lists it had when it was parsed; the note is *)
(* added to the records of the output list only, also for a record that    *)
(* already carries an N1 tag                                               *)
(***************************************************************************)
C26_InputUntouched ==
  pc \in {"tagged_file", "tagged_again"} => records = ris_text

(***************************************************************************)
(* C27: a stage run again, with the same rules, on its own output returns  *)
(* the records of that output with the same tags and values; for the       *)
(* tagging stage, the second run adds nothing to the records               *)
(***************************************************************************)
C27_StageIdempotent ==
  pc = "tagged_again" => out_records = ris_text

(***************************************************************************)
(* C28: merge_and_deduplicate computes the dedup key of every record its   *)
(* parser can produce, also of a record whose DO tag occurs more than      *)
(* once, and never ends by an exception                                    *)
(***************************************************************************)
C28_MergeNeverRaises == pc # "raised"

(***************************************************************************)
(* C29: in the content filter a record with positive score 2 or more is    *)
(* kept whatever its negative score, a record with positive score 0 is     *)
(* rejected, and a record with positive score 1 is rejected exactly when   *)
(* its negative score is 3 or more                                         *)
(***************************************************************************)
C29_NegativeOnlyAtOne ==
  pc = "decided" =>
    LET p == stats.scores.positive
        n == stats.scores.negative
    IN /\ p >= 2 => stats.keep
       /\ p = 0 => ~stats.keep
       /\ p = 1 => (~stats.keep <=> n >= 3)

C29_Witness ==
  /\ pc = "decided"
  /\ stats.scores.positive = 2
  /\ stats.scores.negative >= 3
  /\ stats.keep

(***************************************************************************)
(* run_deduplication_pipeline: records[i] tells whether the i-th script    *)
(* file exists, rules is the loop index of main, out_records lists every   *)
(* subprocess that was started with its return code, ris_text is what was  *)
(* printed and stats is the value of the last run_script call.             *)
(***************************************************************************)
MaxExit == 20

EXIT_CODES == (0 - MaxExit)..MaxExit

SCRIPTS ==
  << "Step5_analyze_duplicates.py",
     "Step3_merge_and_deduplicate.py",
     "Step4_export_to_csv.py" >>

\* run_script that does not look at the return code (check=False)
run_script_unchecked(returncode) == TRUE

\* subprocess.run(..., check=True) raises CalledProcessError on a non-zero
\* return code; run_script turns that into False
run_script(returncode) == returncode = 0

InitPipeline ==
  /\ pc = "checking"
  /\ records \in [1..Len(SCRIPTS) -> BOOLEAN]
  /\ rules = 1
  /\ ris_text = <<>>
  /\ out_records = <<>>
  /\ stats = None

\* one pass of the existence loop over a script that is there
MainCheckScript ==
  /\ pc = "checking"
  /\ records[rules]
  /\ IF rules = Len(SCRIPTS)
       THEN pc' = "running" /\ rules' = 1
       ELSE pc' = "checking" /\ rules' = rules + 1
  /\ UNCHANGED <<records, ris_text, out_records, stats>>

\* the existence loop finds a missing script: message and return
MainScriptMissing ==
  /\ pc = "checking"
  /\ ~records[rules]
  /\ pc' = "missing"
  /\ ris_text' = Append(ris_text, <<"not found", SCRIPTS[rules]>>)
  /\ UNCHANGED <<records, rules, out_records, stats>>

\* one pass of the run loop, with the return or the completion message
\* that follows it
MainRunScript ==
  /\ pc = "running"
  /\ \E returncode \in EXIT_CODES :
       LET success == run_script(returncode)
       IN /\ out_records' = Append(out_records,
                 [script |-> SCRIPTS[rules], returncode |-> returncode])
          /\ stats' = success
          /\ IF ~success
               THEN /\ pc' = "stopped"
                    /\ rules' = rules
                    /\ ris_text' = Append(ris_text, <<"stopped", SCRIPTS[rules]>>)
               ELSE IF rules = Len(SCRIPTS)
                 THEN /\ pc' = "completed"
                      /\ rules' = rules
                      /\ ris_text' = Append(ris_text, <<"completed">>)
                 ELSE /\ pc' = "running"
                      /\ rules' = rules + 1
                      /\ ris_text' = ris_text
  /\ UNCHANGED records

NextPipeline == MainCheckScript \/ MainScriptMissing \/ MainRunScript

SpecPipeline == InitPipeline /\ [][NextPipeline]_vars

AllExist == \A i \in 1..Len(SCRIPTS) : records[i]

AllSucceeded(started) == \A j \in 1..Len(started) : started[j].returncode = 0

\* the scripts started so far are a prefix of the fixed order, started only
\* with all three files there and every earlier one successful
C30_Started ==
  /\ pc \in {"running", "stopped", "completed"} \/ out_records = <<>>
  /\ out_records # <<>> => AllExist
  /\ Len(out_records) <= Len(SCRIPTS)
  /\ \A k \in 1..Len(out_records) :
       /\ out_records[k].script = SCRIPTS[k]
       /\ AllSucceeded(SubSeq(out_records, 1, k - 1))
  /\ (\E m \in 1..Len(ris_text) : ris_text[m] = <<"completed">>)
       <=> pc = "completed"
  /\ pc = "completed" =>
       /\ Len(out_records) = Len(SCRIPTS)
       /\ AllSucceeded(out_records)

\* a script is started only by appending it to those started, and never
\* after one that failed
C30_StartStep ==
  out_records' # out_records =>
    /\ AllSucceeded(out_records)
    /\ \E returncode \in EXIT_CODES :
         out_records' = Append(out_records,
           [script |-> SCRIPTS[Len(out_records) + 1], returncode |-> returncode])

(***************************************************************************)
(* C30: run_deduplication_pipeline starts a script only if all three       *)
(* script files exist and every script earlier in the fixed order has      *)
(* exited successfully; after the first failing script no later script is  *)
(* started, and the completion message is reached only when all three      *)
(* have succeeded                                                          *)
(***************************************************************************)
C30_PipelineOrder == []C30_Started /\ [][C30_StartStep]_vars

C30_Witness ==
  /\ pc = "stopped"
  /\ Len(out_records) = 2
  /\ out_records[1].returncode = 0
  /\ out_records[2].returncode # 0

====
